---- MODULE Spec2Model ----
(***************************************************************************)
(* Model of tolluset/statusline (statusline.go): the file-backed TTL cache *)
(* (Cache.Get / Cache.Set over an append-only file of JSON lines), the     *)
(* notification gateway getNotificationCount that reads through it, the    *)
(* classifier of git status (getGitStatus, getGitDiffStat) and main, which *)
(* renders the status line from them, with shortenPath as a function of    *)
(* its own and writers of the cache file in processes of their own.        *)
(*                                                                         *)
(* The cache file is modelled at the level of its bytes, grouped in        *)
(* tokens: a marshalled CacheEntry, a run of bytes that is not JSON, a run *)
(* of white space, and the newline.  A Go string is a model string with a  *)
(* byte length and a UTF-8 validity; time is the wall clock in ticks.      *)
(***************************************************************************)
EXTENDS Integers, Sequences, FiniteSets, Bags, TLC

\* exists, data: the cache file; now: the wall clock; last, hist: the calls
\* of the cache and of the gateway.  world: what the process is run on (its
\* arguments and standard input, what git prints, the user's files); out:
\* what the function or the process run on it has produced.  calls: the
\* calls of getNotificationCount that wait for the service's answer.
VARIABLES exists, data, now, last, hist, world, out, calls

vars == <<exists, data, now, last, hist, world, out, calls>>

(***************************************************************************)
(* Bounds of the model.                                                    *)
(***************************************************************************)
\* the cache's TTL, in clock ticks (Cache.TTL; 5 minutes in the gateway)
TTL == 1
\* the last tick of the wall clock
MaxTime == 3
\* the largest number of tokens the file grows to: a call that may write is
\* made while the file has room for a whole line (an entry and its newline)
MaxData == 4
\* the largest number of items a successful fetch returns
MaxCount == 1
\* the largest number of calls of getNotificationCount that wait at a time
NumCallers == 2

(***************************************************************************)
(* Go strings.                                                             *)
(***************************************************************************)
\* the fixed key of the gateway
cacheKey == "github_notifications"
\* a string that is one byte, 0xFF: not valid UTF-8
BadStr == "\\xff"
\* the string that is the one rune U+FFFD (three bytes of UTF-8)
ReplStr == "\\ufffd"
\* a valid string of 65536 bytes
BigStr == "x*65536"

\* bufio.MaxScanTokenSize: the Scanner gives up on a line of this many bytes
MaxScanTokenSize == 65536
\* the bytes of a marshalled entry around its key and content
EntryOverhead == 70
\* the bytes of a fragment left by a write that stopped early
FragLen == 10

\* len(s) in bytes
ByteLen(s) ==
  CASE s = BigStr -> MaxScanTokenSize
    [] s = BadStr -> 1
    [] s = ReplStr -> 3
    [] s = cacheKey -> 20
    [] s = "" -> 0
    [] s = "null" -> 4
    [] s = "-1" -> 2
    [] OTHER -> 1

\* encoding/json writes a string coerced to valid UTF-8: an invalid byte
\* becomes U+FFFD
Coerce(s) == IF s = BadStr THEN ReplStr ELSE s

(***************************************************************************)
(* Tokens of the file.                                                     *)
(***************************************************************************)
NL == [t |-> "nl", ts |-> 0, key |-> "", content |-> "", n |-> 1]
SP == [t |-> "sp", ts |-> 0, key |-> "", content |-> "", n |-> 2]
Junk(n) == [t |-> "junk", ts |-> 0, key |-> "", content |-> "", n |-> n]

\* the zero CacheEntry{}
NoEntry == [Timestamp |-> 0, Key |-> "", Content |-> ""]

\* json.Marshal(entry): one token; the strings are coerced, the instant is
\* kept (RFC 3339 with nanoseconds)
MarshalEntry(entry) ==
  [t |-> "json", ts |-> entry.Timestamp, key |-> Coerce(entry.Key),
   content |-> Coerce(entry.Content),
   n |-> EntryOverhead + ByteLen(Coerce(entry.Key))
           + ByteLen(Coerce(entry.Content))]

RECURSIVE LineLen(_)
\* the bytes of a line
LineLen(line) ==
  IF line = <<>> THEN 0 ELSE Head(line).n + LineLen(Tail(line))

RECURSIVE TrimLeft(_)
TrimLeft(line) ==
  IF line # <<>> /\ Head(line).t = "sp" THEN TrimLeft(Tail(line)) ELSE line

RECURSIVE TrimRight(_)
TrimRight(line) ==
  IF line # <<>> /\ line[Len(line)].t = "sp"
    THEN TrimRight(SubSeq(line, 1, Len(line) - 1)) ELSE line

\* strings.TrimSpace
TrimSpace(line) == TrimRight(TrimLeft(line))

\* json.Unmarshal([]byte(line), &entry): succeeds on exactly one JSON
\* object (white space around it is allowed)
UnmarshalEntry(line) ==
  LET l == TrimSpace(line) IN
  IF Len(l) = 1 /\ l[1].t = "json"
    THEN [ok |-> TRUE,
          entry |-> [Timestamp |-> l[1].ts, Key |-> l[1].key,
                     Content |-> l[1].content]]
    ELSE [ok |-> FALSE, entry |-> NoEntry]

RECURSIVE SplitLines(_, _)
\* bufio.ScanLines over the whole content: the lines between newlines, and
\* the unterminated rest if it is not empty
SplitLines(d, cur) ==
  IF d = <<>> THEN (IF cur = <<>> THEN <<>> ELSE <<cur>>)
  ELSE IF Head(d).t = "nl" THEN <<cur>> \o SplitLines(Tail(d), <<>>)
  ELSE SplitLines(Tail(d), Append(cur, Head(d)))

ScanLines(d) == SplitLines(d, <<>>)

RECURSIVE UntilTooLong(_)
\* for scanner.Scan(): the lines the loop sees; Scan returns false at the
\* first line that does not fit the Scanner's buffer
UntilTooLong(lines) ==
  IF lines = <<>> THEN <<>>
  ELSE IF LineLen(Head(lines)) >= MaxScanTokenSize THEN <<>>
  ELSE <<Head(lines)>> \o UntilTooLong(Tail(lines))

Scanned(d) == UntilTooLong(ScanLines(d))

RECURSIVE ScanLoop(_, _, _)
\* the body of the scan loop of getLatestEntry
ScanLoop(lines, key, acc) ==
  IF lines = <<>> THEN acc
  ELSE LET line == TrimSpace(Head(lines))
           u == UnmarshalEntry(line)
       IN IF line = <<>> THEN ScanLoop(Tail(lines), key, acc)
          ELSE IF ~u.ok THEN ScanLoop(Tail(lines), key, acc)
          ELSE IF u.entry.Key = key
            THEN ScanLoop(Tail(lines), key, [entry |-> u.entry, found |-> TRUE])
          ELSE ScanLoop(Tail(lines), key, acc)

\* Cache.getLatestEntry: opened says whether os.Open succeeded
getLatestEntry(ex, d, opened, key) ==
  IF ~ex \/ ~opened THEN [entry |-> NoEntry, found |-> FALSE]
  ELSE ScanLoop(Scanned(d), key, [entry |-> NoEntry, found |-> FALSE])

\* a slip: an entry never expires
isValid_Always(entry, t) == TRUE

\* Cache.isValid: time.Since(entry.Timestamp) <= c.TTL
isValid(entry, t) == t - entry.Timestamp <= TTL

\* Cache.Get: the pair (content, found)
Get(ex, d, opened, key, t) ==
  LET r == getLatestEntry(ex, d, opened, key) IN
  IF ~r.found THEN [val |-> "", found |-> FALSE]
  ELSE IF isValid(r.entry, t) THEN [val |-> r.entry.Content, found |-> TRUE]
  ELSE [val |-> "", found |-> FALSE]

\* the outcomes of Cache.appendEntry: "ok"; "openfail" (os.OpenFile fails);
\* a failed file.Write that wrote nothing ("none") or the beginning of the
\* line, which does not parse ("frag")
Outcomes == {"ok", "openfail", "none", "frag"}

\* a slip: the file is opened with O_TRUNC, so that a failed open of an
\* existing file may leave it empty
openFailed_Truncating(ex, d) == [exists |-> ex, data |-> <<>>, err |-> TRUE]

\* appendEntry when os.OpenFile fails: the error is returned and the file
\* is not touched
openFailed(ex, d) == [exists |-> ex, data |-> d, err |-> TRUE]

\* a slip: the line is written at the start of the file (no O_APPEND)
written_Overwriting(d, entry) ==
  <<MarshalEntry(entry), NL>> \o SubSeq(d, 3, Len(d))

\* appendEntry when the write succeeds: file.Write(append(data, '\n')) on a
\* file opened with O_APPEND
written(d, entry) == d \o <<MarshalEntry(entry), NL>>

\* Cache.appendEntry: the file after it, and whether it returns an error
appendEntry(ex, d, entry, outcome) ==
  CASE outcome = "openfail" -> openFailed(ex, d)
    [] outcome = "ok" ->
         [exists |-> TRUE, data |-> written(d, entry), err |-> FALSE]
    [] outcome = "none" -> [exists |-> TRUE, data |-> d, err |-> TRUE]
    [] outcome = "frag" ->
         [exists |-> TRUE, data |-> Append(d, Junk(FragLen)), err |-> TRUE]

\* Cache.Set: the entry is stamped with time.Now()
Set(ex, d, key, content, t, outcome) ==
  appendEntry(ex, d, [Timestamp |-> t, Key |-> key, Content |-> content],
              outcome)


(***************************************************************************)
(* The notification gateway.                                               *)
(***************************************************************************)
\* json.Marshal(count) for a count: its decimal digits
Itoa(n) ==
  CASE n = 0 -> "0" [] n = 1 -> "1" [] n = 2 -> "2" [] n = 3 -> "3"
    [] n = 4 -> "4" [] n = 5 -> "5" [] n = 6 -> "6" [] n = 7 -> "7"
    [] n = 8 -> "8" [] n = 9 -> "9"

\* json.Unmarshal([]byte(cached), &count) with count an int that is 0
\* before: a JSON integer is stored, null leaves count as it is, anything
\* else is an error
ParseInt(s) ==
  IF \E n \in 0..9 : Itoa(n) = s
    THEN [ok |-> TRUE, count |-> CHOOSE n \in 0..9 : Itoa(n) = s]
  ELSE IF s = "-1" THEN [ok |-> TRUE, count |-> 0 - 1]
  ELSE IF s = "null" THEN [ok |-> TRUE, count |-> 0]
  ELSE [ok |-> FALSE, count |-> 0]

\* a failed fetch: no answer, a status other than 200, a body that does not
\* parse
FetchError == [err |-> TRUE, n |-> 0]
\* what the service answers to a request: a failure, or the notifications
\* (n of them)
Answers == {FetchError} \cup { [err |-> FALSE, n |-> k] : k \in 0..MaxCount }

\* fetchGitHubNotifications: an error, or the notifications
fetchGitHubNotifications(token, answer) ==
  IF token = "" THEN FetchError ELSE answer

\* a slip: the cached count is never used
cacheHit_Never(g, p) == FALSE

\* getNotificationCount returns the cached count: Cache.Get found an entry
\* and its content parses as an int
cacheHit(g, p) == g.found /\ p.ok

\* a slip: a failed fetch leaves bytes in the cache file
fetchFailed_Touching(miss) ==
  [miss EXCEPT !.fetches = 1, !.fetcherr = TRUE,
               !.exists = TRUE, !.data = Append(miss.data, Junk(FragLen))]

\* a slip: a failed fetch is reported as no notifications
fetchFailed_Zero(miss) ==
  [miss EXCEPT !.fetches = 1, !.fetcherr = TRUE, !.count = 0]

\* getNotificationCount when the fetch returns an error: -1, and nothing is
\* written
fetchFailed(miss) == [miss EXCEPT !.fetches = 1, !.fetcherr = TRUE]

\* a slip: a Set that fails is taken for a fetch that fails
fetched_SurfacingSetError(miss, f, w) ==
  [miss EXCEPT !.count = IF w.err THEN 0 - 1 ELSE f.n,
               !.exists = w.exists, !.data = w.data,
               !.fetches = 1, !.sets = 1, !.seterr = w.err]

\* getNotificationCount when the fetch returns f.n notifications: the count
\* is written through the cache by the call w of Cache.Set, whose error is
\* dropped, and returned
fetched(miss, f, w) ==
  [miss EXCEPT !.count = f.n, !.exists = w.exists, !.data = w.data,
               !.fetches = 1, !.sets = 1, !.seterr = w.err]

\* the record of a call of getNotificationCount: the count returned, the
\* file after the call, the number of calls of Cache.Get, of the fetch and
\* of Cache.Set, what Cache.Get returned, whether the count is the cached
\* one (hit), and whether the call waits for the service's answer.  Here
\* the call that returns before Cache.Get
noCount(ex, d) ==
  [count |-> 0 - 1, exists |-> ex, data |-> d, gets |-> 0,
   found |-> FALSE, val |-> "", hit |-> FALSE, fetches |-> 0,
   fetcherr |-> FALSE, sets |-> 0, seterr |-> FALSE, waiting |-> FALSE]

\* getNotificationCount up to the request: the token, the home directory,
\* Cache.Get at time t and the cached count; on a miss the call goes on to
\* fetchGitHubNotifications and waits.  homeOk: os.UserHomeDir succeeds;
\* opened: os.Open of the cache file succeeds
countBegin(ex, d, t, token, homeOk, opened) ==
  LET g == Get(ex, d, opened, cacheKey, t)
      miss == [noCount(ex, d) EXCEPT !.gets = 1, !.found = g.found,
                                     !.val = g.val]
      p == ParseInt(g.val)
  IN IF token = "" THEN noCount(ex, d)
     ELSE IF ~homeOk THEN noCount(ex, d)
     ELSE IF cacheHit(g, p) THEN [miss EXCEPT !.count = p.count, !.hit = TRUE]
     ELSE [miss EXCEPT !.waiting = TRUE]

\* getNotificationCount from the answer on, for the call b that waited: the
\* file is the one of this moment, (ex, d), and Cache.Set stamps its entry
\* with the time t of this moment.  answer: the service's answer; outcome:
\* that of appendEntry
countEnd(b, ex, d, t, token, answer, outcome) ==
  LET miss == [b EXCEPT !.exists = ex, !.data = d, !.waiting = FALSE]
      f == fetchGitHubNotifications(token, answer)
  IN IF f.err THEN fetchFailed(miss)
     ELSE fetched(miss, f, Set(ex, d, cacheKey, Itoa(f.n), t, outcome))

\* getNotificationCount when nothing happens to the file or the clock
\* while it waits
getNotificationCount(ex, d, t, token, homeOk, opened, answer, outcome) ==
  IF countBegin(ex, d, t, token, homeOk, opened).waiting
    THEN countEnd(countBegin(ex, d, t, token, homeOk, opened), ex, d, t,
                  token, answer, outcome)
    ELSE countBegin(ex, d, t, token, homeOk, opened)

(***************************************************************************)
(* The state machine: processes that call the cache and the gateway on one *)
(* cache file while the clock advances. A call of Get or of Set is one     *)
(* step; a call of getNotificationCount that sends a request is two, and   *)
(* the steps of other processes come between them.                         *)
(***************************************************************************)
\* the keys of the calls
Keys == {cacheKey, "b"}
\* the contents of the calls of Set
Contents == {"1", "x", BigStr}
\* the configured GITHUB_TOKEN: none, or one
Tokens == {"", "tok"}

Entry(ts, key, content) ==
  MarshalEntry([Timestamp |-> ts, Key |-> key, Content |-> content])

\* the lines a cache file may hold when the process starts: entries of
\* earlier runs and of other writers, and content that is not an entry
InitLines ==
  { <<Entry(0, cacheKey, "2")>>, <<Entry(1, cacheKey, "x")>>,
    <<Entry(0, cacheKey, "-1")>>, <<SP>>,
    <<Junk(FragLen)>>, <<Junk(MaxScanTokenSize)>> }

\* the contents of the file at the start: empty, or one line with or
\* without its newline
InitFiles ==
  {<<>>} \cup { l \o e : l \in InitLines, e \in {<<>>, <<NL>>} }

\* the successful calls of Set on a key so far: how many, and of the last
\* one its time, its content, the length of the file after it, and whether
\* it created the file
NoHist == [n |-> 0, at |-> 0, val |-> "", end |-> 0, fresh |-> FALSE]

Record(h, key, content, t, len, fresh) ==
  [h EXCEPT ![key] = [n |-> h[key].n + 1, at |-> t, val |-> content,
                      end |-> len, fresh |-> fresh]]

\* no function is applied and no process is run
NoWorld == [op |-> "none"]
NoOut == [op |-> "none"]

\* of a call of getNotificationCount that waits for the service: the token
\* and what Cache.Get returned to it; noti: the call is that of
\* handleNotiCommand, which asks the service without the cache
Waiting(token, b) ==
  [token |-> token, found |-> b.found, val |-> b.val, noti |-> FALSE]

\* of a run of handleNotiCommand that waits for the service: the token
NotiWaiting(token) ==
  [token |-> token, found |-> FALSE, val |-> "", noti |-> TRUE]

\* the calls that wait: each render is a process of its own and nothing
\* keeps two of them apart, so any number of calls wait at a time, and calls
\* that wait with the same record differ in nothing. overlapped: a call has
\* begun while another one waited
NoCalls == [pend |-> EmptyBag, overlapped |-> FALSE]

Busy == BagCardinality(calls.pend)

\* the last call and what it returned; retry: the call is a Count that
\* fetched, right after a Count whose fetch failed; fetched: the number of
\* notifications that the fetch of the call returned, -1 when there is none
NoCall ==
  [op |-> "none", key |-> "", val |-> "", found |-> FALSE,
   err |-> FALSE, opened |-> FALSE, token |-> "", homeOk |-> FALSE,
   count |-> 0, gets |-> 0, hit |-> FALSE, fetches |-> 0,
   fetcherr |-> FALSE, sets |-> 0, retry |-> FALSE, fetched |-> 0 - 1]

Init ==
  /\ exists \in BOOLEAN
  /\ data \in (IF exists THEN InitFiles ELSE {<<>>})
  /\ now = 1
  /\ last = NoCall
  /\ hist = [k \in Keys |-> NoHist]
  /\ world = NoWorld
  /\ out = NoOut
  /\ calls = NoCalls

\* the wall clock advances; the last call is over
Tick ==
  /\ now < MaxTime
  /\ now' = now + 1
  /\ last' = NoCall
  /\ UNCHANGED <<exists, data, hist, world, out, calls>>

\* a slip: the file is opened as appendEntry opens it, with O_CREATE
osOpen_Creating(ex, d, opened) ==
  [exists |-> ex \/ opened, data |-> d]

\* the file after os.Open(c.FilePath) and the scan: os.Open opens for
\* reading only and creates nothing, and the Scanner only reads
osOpen(ex, d, opened) == [exists |-> ex, data |-> d]

\* a call content, found := cache.Get(key)
DoGet(key, opened) ==
  LET r == Get(exists, data, opened, key, now) IN
  /\ last' = [NoCall EXCEPT !.op = "Get", !.key = key, !.opened = opened,
                            !.val = r.val, !.found = r.found]
  /\ exists' = osOpen(exists, data, opened).exists
  /\ data' = osOpen(exists, data, opened).data
  /\ UNCHANGED <<now, hist, world, out, calls>>

\* a call err := cache.Set(key, content); a call that writes needs room for
\* a line in the file
DoSet(key, content, outcome) ==
  LET w == Set(exists, data, key, content, now, outcome) IN
  /\ w.data # data => Len(data) + 2 <= MaxData
  /\ exists' = w.exists
  /\ data' = w.data
  /\ last' = [NoCall EXCEPT !.op = "Set", !.key = key, !.err = w.err]
  /\ hist' = IF w.err THEN hist
             ELSE Record(hist, key, content, now, Len(w.data), ~exists)
  /\ UNCHANGED <<now, world, out, calls>>

\* the record of the call that waits
Resumed(pd, ex, d) ==
  [noCount(ex, d) EXCEPT !.gets = 1, !.found = pd.found, !.val = pd.val,
                         !.waiting = TRUE]

\* the call c of getNotificationCount has returned
Returned(token, homeOk, c, answer) ==
  [NoCall EXCEPT !.op = "Count", !.token = token, !.homeOk = homeOk,
                 !.count = c.count, !.gets = c.gets,
                 !.found = c.found, !.val = c.val,
                 !.hit = c.hit, !.fetches = c.fetches,
                 !.fetcherr = c.fetcherr,
                 !.sets = c.sets, !.err = c.seterr,
                 !.retry = /\ last.op = "Count"
                           /\ last.fetcherr
                           /\ c.fetches = 1,
                 !.fetched = IF c.fetches = 1 /\ ~answer.err
                               THEN answer.n ELSE 0 - 1]

\* a process calls getNotificationCount(envVars): the call returns at once,
\* without the token or the home directory or with the cached count, or it
\* sends its request and waits
CountBegin(token, homeOk, opened) ==
  LET b == countBegin(exists, data, now, token, homeOk, opened) IN
  /\ b.waiting => Busy < NumCallers
  /\ exists' = b.exists
  /\ data' = b.data
  /\ last' = IF b.waiting THEN last
             ELSE Returned(token, homeOk, b, FetchError)
  /\ calls' = [pend |-> IF b.waiting
                          THEN calls.pend (+) SetToBag({Waiting(token, b)})
                          ELSE calls.pend,
               overlapped |-> calls.overlapped \/ Busy > 0]
  /\ UNCHANGED <<now, hist, world, out>>

\* the answer of the service reaches the call that waits with the record
\* pd, which goes on from fetchGitHubNotifications to its return, on the
\* file and at the time of this moment; a call that writes needs room for a
\* line below limit
CountEnd(limit, pd, answer, outcome) ==
  LET c == countEnd(Resumed(pd, exists, data), exists, data, now, pd.token,
                    answer, outcome)
  IN /\ BagIn(pd, calls.pend)
     /\ c.data # data => Len(data) + 2 <= limit
     /\ exists' = c.exists
     /\ data' = c.data
     /\ last' = Returned(pd.token, TRUE, c, answer)
     /\ hist' = IF c.sets = 1 /\ ~c.seterr
                  THEN Record(hist, cacheKey, Itoa(c.count), now,
                              Len(c.data), ~exists)
                  ELSE hist
     /\ calls' = [calls EXCEPT !.pend = @ (-) SetToBag({pd})]
     /\ UNCHANGED <<now, world, out>>

GetStep == \E key \in Keys, opened \in BOOLEAN : DoGet(key, opened)
SetStep ==
  \E key \in Keys, content \in Contents, outcome \in Outcomes :
    DoSet(key, content, outcome)
\* an input that the call does not reach is fixed, the others are free: the
\* home directory is looked up only with a token, the file is opened only
\* with a home directory
CountBeginStep ==
  \E token \in Tokens, homeOk \in BOOLEAN, opened \in BOOLEAN :
    /\ token = "" => homeOk
    /\ ~homeOk => opened
    /\ CountBegin(token, homeOk, opened)
CountEndStep ==
  \E pd \in BagToSet(calls.pend), answer \in Answers, outcome \in Outcomes :
    CountEnd(MaxData, pd, answer, outcome)

\* the callers of the cache
Next == Tick \/ GetStep \/ SetStep

Spec == Init /\ [][Next]_vars

\* the callers of the gateway
NextCount == Tick \/ CountBeginStep \/ CountEndStep

SpecCount == Init /\ [][NextCount]_vars


(***************************************************************************)
(* The scan of Cache.Get over the files another writer may have left: a    *)
(* second specification that draws the file and only reads it.             *)
(***************************************************************************)
\* the largest number of lines of a file that is only read
MaxScanLines == 3

\* the lines of those files
ScanPool ==
  { <<Entry(0, cacheKey, "2")>>, <<Entry(1, cacheKey, "x")>>,
    <<Entry(1, "b", "1")>>, <<SP>>,
    <<Junk(FragLen)>>, <<Junk(MaxScanTokenSize)>> }

RECURSIVE Terminated(_)
\* the files of at most n lines, each with its newline
Terminated(n) ==
  IF n = 0 THEN {<<>>}
  ELSE LET s == Terminated(n - 1) IN
       s \cup { f \o l \o <<NL>> : f \in s, l \in ScanPool }

\* the files of at most MaxScanLines lines, the last one with or without its
\* newline
ScanFiles ==
  Terminated(MaxScanLines)
    \cup { f \o l : f \in Terminated(MaxScanLines - 1), l \in ScanPool }

InitScan ==
  /\ exists = TRUE
  /\ data \in ScanFiles
  /\ now = 1
  /\ last = NoCall
  /\ hist = [k \in Keys |-> NoHist]
  /\ world = NoWorld
  /\ out = NoOut
  /\ calls = NoCalls

NextScan == Tick \/ GetStep

SpecScan == InitScan /\ [][NextScan]_vars


(***************************************************************************)
(* Properties of the cache.                                                *)
(***************************************************************************)
\* an entry for key was appended after the last successful Set on key
LaterEntry(key) ==
  \E i \in (hist[key].end + 1)..Len(data) :
    data[i].t = "json" /\ data[i].key = key

\* the last call was a Get of key that could open the file
GotKey(key) == last.op = "Get" /\ last.key = key /\ last.opened

\* C1: a Get(k) issued within the TTL of a successful Set(k, v), with no
\* later entry for k appended, returns (v, true), whatever the file held
\* before.
C1_GetAfterSet ==
  \A k \in Keys :
    (/\ GotKey(k)
     /\ hist[k].n > 0
     /\ ~LaterEntry(k)
     /\ now - hist[k].at <= TTL)
    => (last.found /\ last.val = hist[k].val)

\* the entries for key that the file holds, in the order of the file
EntriesFor(d, key) ==
  SelectSeq(d, LAMBDA tok : tok.t = "json" /\ tok.key = key)

\* C2: once the last entry for k in the file is older than the TTL, a
\* Get(k) returns ("", false) although the entry is in the file; as no call
\* but a Set(k, .) appends an entry for k and the clock only advances, the
\* result stays not-found until such a Set.
C2_ExpiredIsNotFound ==
  \A k \in Keys :
    LET es == EntriesFor(data, k) IN
    (/\ GotKey(k)
     /\ es # <<>>
     /\ now - es[Len(es)].ts > TTL)
    => (~last.found /\ last.val = "")

\* C3: after two or more successful Sets on k by the one writer, a Get(k)
\* within the TTL returns the content of the most recent of them.
C3_LastWriteWins ==
  \A k \in Keys :
    (/\ GotKey(k)
     /\ hist[k].n >= 2
     /\ ~LaterEntry(k)
     /\ now - hist[k].at <= TTL)
    => (last.found /\ last.val = hist[k].val)

\* C4: a Get returns ("", false) for a key no entry of the file carries, and
\* when the file does not exist or cannot be opened; a Get that follows,
\* within the TTL, a Set that created the missing file hits on that key.
C4_ColdCache ==
  /\ \A k \in Keys :
       (/\ last.op = "Get" /\ last.key = k
        /\ (~exists \/ ~last.opened \/ EntriesFor(data, k) = <<>>))
       => (~last.found /\ last.val = "")
  /\ \A k \in Keys :
       (/\ GotKey(k)
        /\ hist[k].n > 0 /\ hist[k].fresh
        /\ hist[k].end = Len(data)
        /\ now - hist[k].at <= TTL)
       => last.found

\* a successful Set(a, .) leaves the result of Get(b) as it was, b # a
SetFrame ==
  \A a \in Keys, content \in Contents : \A b \in Keys \ {a} :
    DoSet(a, content, "ok")
      => Get(exists', data', TRUE, b, now) = Get(exists, data, TRUE, b, now)

\* after successful Sets on two distinct keys, within the TTL of both, a Get
\* of either returns what was set on it
BothKeys ==
  \A a \in Keys : \A b \in Keys \ {a} :
    (/\ GotKey(a)
     /\ hist[a].n > 0 /\ hist[b].n > 0
     /\ ~LaterEntry(a)
     /\ now - hist[a].at <= TTL /\ now - hist[b].at <= TTL)
    => (last.found /\ last.val = hist[a].val)

\* C5: distinct keys do not interfere: a Set(a, .) never changes the result
\* of Get(b) for b # a, and after Set(a, x) and Set(b, y) in either order
\* Get(a) = (x, true) and Get(b) = (y, true) within the TTL.
C5_DistinctKeys == [][SetFrame /\ BothKeys']_vars


\* a is the beginning of b
IsPrefix(a, b) == Len(a) <= Len(b) /\ SubSeq(b, 1, Len(a)) = a

\* the file (ex, d) is still there in (ex2, d2), and begins it
Extends(ex, d, ex2, d2) == (ex => ex2) /\ IsPrefix(d, d2)

\* (ex2, d2) is (ex, d) and one serialized entry for key, stamped t, with
\* its newline
OneLineMore(ex, d, ex2, d2, key, t) ==
  /\ ex2
  /\ Len(d2) = Len(d) + 2
  /\ SubSeq(d2, 1, Len(d)) = d
  /\ d2[Len(d) + 1].t = "json"
  /\ d2[Len(d) + 1].key = key
  /\ d2[Len(d) + 1].ts = t
  /\ d2[Len(d) + 2] = NL

\* what a call of getNotificationCount that waits has got from Cache.Get:
\* no entry, or an entry whose content is no integer
Waits ==
  { [token |-> "tok", found |-> FALSE, val |-> "", noti |-> FALSE],
    [token |-> "tok", found |-> TRUE, val |-> "x", noti |-> FALSE] }

\* the gateway's Count on the file of this moment: the call up to its
\* return or its request, and the call from the answer on
CountAppends ==
  /\ \A token \in Tokens, homeOk \in BOOLEAN, opened \in BOOLEAN :
       (token = "" => homeOk) /\ (~homeOk => opened) =>
         LET b == countBegin(exists, data, now, token, homeOk, opened) IN
         b.exists = exists /\ b.data = data /\ b.sets = 0
  /\ \A pd \in Waits, answer \in Answers, outcome \in Outcomes :
       LET c == countEnd(Resumed(pd, exists, data), exists, data, now,
                         pd.token, answer, outcome)
       IN /\ Extends(exists, data, c.exists, c.data)
          /\ (c.sets = 1 /\ ~c.seterr)
               => OneLineMore(exists, data, c.exists, c.data, cacheKey, now)
          /\ c.sets = 0 => (c.exists = exists /\ c.data = data)

\* C6: the cache file is append-only: over every step (a Get, a Set, a
\* tick) the file stays in existence and its content before is the
\* beginning of its content after, and a successful Set appends exactly one
\* serialized entry stamped with the current time and its newline; and so
\* does the gateway's Count, called on the file of any moment.
C6_AppendOnly ==
  [][/\ Extends(exists, data, exists', data')
     /\ (last'.op = "Set" /\ ~last'.err)
          => OneLineMore(exists, data, exists', data', last'.key, now)
     /\ CountAppends]_vars

\* a successful Set has appended its line to a file that held content
C6_Witness ==
  /\ last.op = "Set" /\ ~last.err
  /\ Len(data) > 2
  /\ data[Len(data)] = NL

\* C7: a Set whose open or write fails returns an error; after a failed
\* open the file is as it was (in existence and in content), and every
\* Get, now or later, returns what it returned before.
C7_SetFailure ==
  [][\A key \in Keys, content \in Contents, o \in Outcomes \ {"ok"} :
       DoSet(key, content, o) =>
         /\ last'.err
         /\ o = "openfail" =>
              /\ exists' = exists
              /\ data' = data
              /\ \A k \in Keys, t \in now..MaxTime :
                   Get(exists', data', TRUE, k, t)
                     = Get(exists, data, TRUE, k, t)]_vars

\* a Set has failed to open the missing file, which is still missing
C7_Witness == last.op = "Set" /\ last.err /\ ~exists

\* the line is blank or parses as an entry
Parses(line) == TrimSpace(line) = <<>> \/ UnmarshalEntry(line).ok

RECURSIVE JoinLines(_)
\* the file made of the lines, each with its newline
JoinLines(lines) ==
  IF lines = <<>> THEN <<>>
  ELSE Head(lines) \o <<NL>> \o JoinLines(Tail(lines))

\* the file without its lines that do not parse
Strip(d) == JoinLines(SelectSeq(ScanLines(d), Parses))

\* C8: a Get returns what it returns on the same file with every line that
\* fails to parse removed, wherever those lines are and however long.
C8_SkipsMalformed ==
  \A k \in Keys :
    GotKey(k) =>
      [val |-> last.val, found |-> last.found]
        = Get(exists, Strip(data), TRUE, k, now)

(***************************************************************************)
(* Properties of the gateway.                                              *)
(***************************************************************************)
\* the step is the return of a call of getNotificationCount: at once, or
\* when the answer has come
Returns == last'.op = "Count" /\ Busy' <= Busy

\* C9 as stated: Count returns -1 whenever there is no token or the fetch
\* fails, and a non-negative integer in every other case.
C9_Original ==
  last.op = "Count" =>
    IF last.token = "" \/ last.fetcherr
      THEN last.count = 0 - 1
      ELSE last.count >= 0

\* C9 amended: Count returns -1 whenever there is no token, the home
\* directory is not found, or the fetch is issued and fails; in every other
\* case it returns the integer of the cached payload on a hit, and the
\* number of fetched notifications, which is not negative, otherwise.
C9_Sentinel ==
  last.op = "Count" =>
    IF last.token = "" \/ ~last.homeOk \/ last.fetcherr
      THEN last.count = 0 - 1
    ELSE IF last.hit
      THEN ParseInt(last.val).ok /\ last.count = ParseInt(last.val).count
    ELSE last.fetches = 1 /\ last.count >= 0

\* a Count with a token has found no home directory
C9_Witness ==
  last.op = "Count" /\ last.token # "" /\ ~last.homeOk /\ last.count = 0 - 1

\* C10 as stated: whenever Get on the fixed key returns found, Count
\* returns the cached payload parsed as an integer and issues no fetch.
C10_Original ==
  (last.op = "Count" /\ last.gets = 1 /\ last.found) =>
    /\ last.fetches = 0
    /\ ParseInt(last.val).ok
    /\ last.count = ParseInt(last.val).count

\* C10 amended: whenever Get on the fixed key returns found and the payload
\* parses as an integer, Count returns that integer and issues no fetch and
\* no Set; when the payload does not parse, Count goes on as on a miss and
\* issues one fetch.
C10_NoFetchOnHit ==
  (last.op = "Count" /\ last.gets = 1 /\ last.found) =>
    IF ParseInt(last.val).ok
      THEN /\ last.fetches = 0
           /\ last.sets = 0
           /\ last.count = ParseInt(last.val).count
      ELSE last.fetches = 1

\* a Count has returned the cached count
C10_Witness ==
  /\ last.op = "Count" /\ last.found /\ ParseInt(last.val).ok
  /\ last.fetches = 0 /\ last.count = ParseInt(last.val).count

\* C11: a Count with a token whose lookup finds no entry (a miss, or an
\* expired entry) issues one fetch; when the fetch returns n items, Count
\* returns n and calls Set once, with the decimal text of n under the fixed
\* key: a Set that succeeds appends that entry, a Set that fails changes
\* nothing but the bytes it wrote, and Count returns n all the same. The
\* file and the time are those of the moment the answer comes.
C11_WriteThrough ==
  [][(Returns /\ last'.gets = 1 /\ ~last'.found)
       => /\ last'.token # ""
          /\ last'.fetches = 1
          /\ ~last'.fetcherr =>
               /\ last'.fetched >= 0
               /\ last'.count = last'.fetched
               /\ last'.sets = 1
               /\ ~last'.err =>
                    /\ exists'
                    /\ data' = data \o <<Entry(now, cacheKey,
                                               Itoa(last'.fetched)), NL>>
               /\ last'.err =>
                    data' \in {data, Append(data, Junk(FragLen))}
    ]_vars

\* a Count has fetched a count and returned it though its Set failed
C11_Witness ==
  /\ last.op = "Count" /\ ~last.found /\ last.fetches = 1 /\ last.sets = 1
  /\ last.err /\ last.count = MaxCount

\* C12: a Count whose fetch fails returns -1 and leaves the cache file as it
\* was; and every Count with a token and a home directory that does not
\* return a cached count issues a fetch, whatever the calls before it did.
C12_FailedFetchNotCached ==
  [][Returns
       => /\ last'.fetcherr =>
               /\ last'.count = 0 - 1
               /\ last'.sets = 0
               /\ exists' = exists /\ data' = data
          /\ (last'.token # "" /\ last'.homeOk /\ ~last'.hit)
               => last'.fetches = 1
    ]_vars

\* a Count whose fetch failed is followed by a Count that fetches again, and
\* fails again, and no call has begun while another one waited
C12_Witness ==
  /\ last.op = "Count" /\ last.retry /\ last.fetcherr /\ last.count = 0 - 1
  /\ ~calls.overlapped

\* C13: a count that Count returns from the cache is the content of an entry
\* of the file whose time stamp is at most TTL before the call.
C13_StalenessBound ==
  (last.op = "Count" /\ last.hit) =>
    /\ last.fetches = 0
    /\ \E i \in 1..Len(data) :
         /\ data[i].t = "json" /\ data[i].key = cacheKey
         /\ data[i].content = last.val
         /\ ParseInt(data[i].content).count = last.count
         /\ now - data[i].ts <= TTL

\* a Count returns the count that a Count wrote exactly TTL before
C13_Witness ==
  /\ last.op = "Count" /\ last.hit
  /\ hist[cacheKey].n >= 1 /\ now - hist[cacheKey].at = TTL
  /\ last.val = hist[cacheKey].val

(***************************************************************************)
(* Go strings that the program takes apart are sequences of characters,    *)
(* each a string of length one; the strings it puts together are strings.  *)
(***************************************************************************)
\* the space characters that have no escape in a string of this module, each
\* written as one character by its Go escape: the vertical tab, U+0085 (NEL),
\* U+00A0 (no-break space), U+1680, U+2000 to U+200A, U+2028, U+2029, U+202F,
\* U+205F and U+3000
WideSpace ==
  {"\\v", "\\u0085", "\\u00a0", "\\u1680",
   "\\u2000", "\\u2001", "\\u2002", "\\u2003", "\\u2004", "\\u2005",
   "\\u2006", "\\u2007", "\\u2008", "\\u2009", "\\u200a",
   "\\u2028", "\\u2029", "\\u202f", "\\u205f", "\\u3000"}

\* the white space of strings.TrimSpace: the characters of unicode.IsSpace,
\* '\t', '\n', '\v', '\f', '\r', ' ', U+0085, U+00A0 and the space
\* characters above Latin-1.  The space table of fmt's scanner is the same
\* set.
WhiteSpace == {" ", "\t", "\n", "\r", "\f"} \cup WideSpace

\* the bytes of a character in UTF-8, each a character of its own: one for
\* a character of ASCII (the vertical tab too), two for U+0085 and U+00A0,
\* three for the space characters above Latin-1
Utf8(c) ==
  CASE c = "\\u0085" -> <<"\\xc2", "\\x85">>
    [] c = "\\u00a0" -> <<"\\xc2", "\\xa0">>
    [] c = "\\u1680" -> <<"\\xe1", "\\x9a", "\\x80">>
    [] c = "\\u2000" -> <<"\\xe2", "\\x80", "\\x80">>
    [] c = "\\u2001" -> <<"\\xe2", "\\x80", "\\x81">>
    [] c = "\\u2002" -> <<"\\xe2", "\\x80", "\\x82">>
    [] c = "\\u2003" -> <<"\\xe2", "\\x80", "\\x83">>
    [] c = "\\u2004" -> <<"\\xe2", "\\x80", "\\x84">>
    [] c = "\\u2005" -> <<"\\xe2", "\\x80", "\\x85">>
    [] c = "\\u2006" -> <<"\\xe2", "\\x80", "\\x86">>
    [] c = "\\u2007" -> <<"\\xe2", "\\x80", "\\x87">>
    [] c = "\\u2008" -> <<"\\xe2", "\\x80", "\\x88">>
    [] c = "\\u2009" -> <<"\\xe2", "\\x80", "\\x89">>
    [] c = "\\u200a" -> <<"\\xe2", "\\x80", "\\x8a">>
    [] c = "\\u2028" -> <<"\\xe2", "\\x80", "\\xa8">>
    [] c = "\\u2029" -> <<"\\xe2", "\\x80", "\\xa9">>
    [] c = "\\u202f" -> <<"\\xe2", "\\x80", "\\xaf">>
    [] c = "\\u205f" -> <<"\\xe2", "\\x81", "\\x9f">>
    [] c = "\\u3000" -> <<"\\xe3", "\\x80", "\\x80">>
    [] OTHER -> <<c>>

RECURSIVE Bytes(_)
\* a string as Go indexes it: s[i] is a byte and len(s) counts bytes
Bytes(s) == IF s = <<>> THEN <<>> ELSE Utf8(Head(s)) \o Bytes(Tail(s))

RECURSIVE StrTrimLeft(_)
StrTrimLeft(s) ==
  IF s # <<>> /\ Head(s) \in WhiteSpace THEN StrTrimLeft(Tail(s)) ELSE s

RECURSIVE StrTrimRight(_)
StrTrimRight(s) ==
  IF s # <<>> /\ s[Len(s)] \in WhiteSpace
    THEN StrTrimRight(SubSeq(s, 1, Len(s) - 1))
    ELSE s

\* strings.TrimSpace
StrTrimSpace(s) == StrTrimRight(StrTrimLeft(s))

\* strings.HasPrefix
StrHasPrefix(s, prefix) ==
  Len(s) >= Len(prefix) /\ SubSeq(s, 1, Len(prefix)) = prefix

\* strings.Contains
StrContains(s, substr) ==
  \E i \in 0..(Len(s) - Len(substr)) :
    SubSeq(s, i + 1, i + Len(substr)) = substr

RECURSIVE StrSplitFrom(_, _, _)
StrSplitFrom(s, sep, cur) ==
  IF s = <<>> THEN <<cur>>
  ELSE IF StrHasPrefix(s, sep)
    THEN <<cur>> \o StrSplitFrom(SubSeq(s, Len(sep) + 1, Len(s)), sep, <<>>)
  ELSE StrSplitFrom(Tail(s), sep, Append(cur, Head(s)))

\* strings.Split for a separator that is not empty: the empty string gives
\* one empty part
StrSplit(s, sep) == StrSplitFrom(s, sep, <<>>)

RECURSIVE StrJoin(_, _)
\* strings.Join of strings
StrJoin(parts, sep) ==
  IF parts = <<>> THEN ""
  ELSE IF Len(parts) = 1 THEN parts[1]
  ELSE parts[1] \o sep \o StrJoin(Tail(parts), sep)

Digits == <<"0", "1", "2", "3", "4", "5", "6", "7", "8", "9">>

RECURSIVE Sprintd(_)
\* fmt.Sprintf("%d", n) for n >= 0
Sprintd(n) ==
  IF n < 10 THEN Digits[n + 1] ELSE Sprintd(n \div 10) \o Digits[(n % 10) + 1]

\* the colours of the rendered line
Esc(code) == "\\033[" \o code \o "m"
Reset == "\\033[0m"

(***************************************************************************)
(* getGitStatus: the classification of the lines of                        *)
(* git status --porcelain=v1.                                              *)
(***************************************************************************)
NoCounters ==
  [stagedAdded |-> 0, stagedModified |-> 0, stagedDeleted |-> 0,
   unstagedAdded |-> 0, unstagedModified |-> 0, unstagedDeleted |-> 0]

\* the switch on the stage column
stagedCount(acc, stagedStatus) ==
  IF stagedStatus # " " /\ stagedStatus # "?"
    THEN CASE stagedStatus = "A" -> [acc EXCEPT !.stagedAdded = @ + 1]
           [] stagedStatus = "D" -> [acc EXCEPT !.stagedDeleted = @ + 1]
           [] stagedStatus \in {"M", "R", "C"} ->
                [acc EXCEPT !.stagedModified = @ + 1]
           [] OTHER -> acc
    ELSE acc

\* the switch on the worktree column
workingCount(acc, workingStatus) ==
  IF workingStatus # " " /\ workingStatus # "?"
    THEN CASE workingStatus = "M" -> [acc EXCEPT !.unstagedModified = @ + 1]
           [] workingStatus = "D" -> [acc EXCEPT !.unstagedDeleted = @ + 1]
           [] OTHER -> acc
    ELSE acc

\* a slip: untracked files are not counted
untracked_Never(stagedStatus, workingStatus) == FALSE

\* the test for an untracked file
untracked(stagedStatus, workingStatus) ==
  stagedStatus = "?" /\ workingStatus = "?"

\* the body of the loop over the lines; line is the line as Go indexes it,
\* by bytes
classifyLine(acc, line) ==
  IF Len(line) < 2 THEN acc
  ELSE LET stagedStatus == line[1]
           workingStatus == line[2]
           a == workingCount(stagedCount(acc, stagedStatus), workingStatus)
       IN IF untracked(stagedStatus, workingStatus)
            THEN [a EXCEPT !.unstagedAdded = @ + 1]
            ELSE a

RECURSIVE classifyLoop(_, _)
\* the loop: the counters after each line, each of which the body reads by
\* its bytes
classifyLoop(lines, acc) ==
  IF lines = <<>> THEN <<>>
  ELSE LET a == classifyLine(acc, Bytes(Head(lines))) IN
       <<a>> \o classifyLoop(Tail(lines), a)

(***************************************************************************)
(* getGitDiffStat: the parse of the line of git diff --shortstat.          *)
(***************************************************************************)
IsDigit(c) == \E i \in 1..10 : Digits[i] = c
DigitVal(c) == CHOOSE i \in 0..9 : Digits[i + 1] = c

RECURSIVE ScanDigits(_, _, _)
\* the digits at the front of s, as a number; ok: there is one at least
ScanDigits(s, n, ok) ==
  IF s # <<>> /\ IsDigit(Head(s))
    THEN ScanDigits(Tail(s), 10 * n + DigitVal(Head(s)), TRUE)
    ELSE [n |-> n, ok |-> ok]

RECURSIVE SkipSpace(_)
\* the white space that a verb of Sscanf skips: every space character but
\* the newline, at which the scan stops
SkipSpace(s) ==
  IF s # <<>> /\ Head(s) \in WhiteSpace \ {"\n"}
    THEN SkipSpace(Tail(s)) ELSE s

\* fmt.Sscanf(s, "%d word", &v): the value of v after the call.  The verb
\* stores the integer at the front of s, with its sign; when there is none
\* v keeps its value; the words after the verb do not change what is stored.
Sscanf(s, v) ==
  LET t == SkipSpace(s)
      neg == t # <<>> /\ Head(t) = "-"
      u == IF t # <<>> /\ Head(t) \in {"+", "-"} THEN Tail(t) ELSE t
      d == ScanDigits(u, 0, FALSE)
  IN IF d.ok THEN (IF neg THEN 0 - d.n ELSE d.n) ELSE v

FileWord == <<"f", "i", "l", "e">>
InsertionWord == <<"i", "n", "s", "e", "r", "t", "i", "o", "n">>
DeletionWord == <<"d", "e", "l", "e", "t", "i", "o", "n">>
CommaSpace == <<",", " ">>

RECURSIVE scanParts(_, _, _)
\* the loop over the parts of the line: each part that contains the word is
\* scanned
scanParts(parts, word, v) ==
  IF parts = <<>> THEN v
  ELSE scanParts(Tail(parts), word,
                 IF StrContains(Head(parts), word)
                   THEN Sscanf(Head(parts), v) ELSE v)

\* a slip: the insertions are scanned from the front of the whole line
insertionsOf_WholeLine(statLine) ==
  IF StrContains(statLine, InsertionWord) THEN Sscanf(statLine, 0) ELSE 0

insertionsOf(statLine) ==
  IF StrContains(statLine, InsertionWord)
    THEN scanParts(StrSplit(statLine, CommaSpace), InsertionWord, 0)
    ELSE 0

\* the three numbers parsed from the trimmed line
parseShortStat(statLine) ==
  [filesChanged |-> IF StrContains(statLine, FileWord)
                      THEN Sscanf(statLine, 0) ELSE 0,
   insertions |-> insertionsOf(statLine),
   deletions |-> IF StrContains(statLine, DeletionWord)
                   THEN scanParts(StrSplit(statLine, CommaSpace),
                                  DeletionWord, 0)
                   ELSE 0]

NoStat == [filesChanged |-> 0, insertions |-> 0, deletions |-> 0]

\* the end of getGitDiffStat: the numbers parsed and the string built from
\* them, the parts that are not zero, joined
formatStat(p) ==
  LET statParts ==
        (IF p.filesChanged > 0
           THEN <<"(" \o Esc("36") \o Sprintd(p.filesChanged) \o "f" \o Reset>>
           ELSE <<>>)
        \o (IF p.insertions > 0
              THEN <<Esc("32") \o "+" \o Sprintd(p.insertions) \o Reset>>
              ELSE <<>>)
        \o (IF p.deletions > 0
              THEN <<Esc("31") \o "-" \o Sprintd(p.deletions) \o Reset>>
              ELSE <<>>)
  IN [stat |-> p,
      text |-> IF statParts # <<>>
                 THEN StrJoin(statParts, "")
                        \o (IF p.filesChanged > 0 THEN ")" ELSE "")
                 ELSE ""]

\* getGitDiffStat on what git diff --shortstat gave (r.err: the command
\* failed; r.output: its output): the numbers parsed and the string returned
getGitDiffStat(r) ==
  LET statLine == StrTrimSpace(r.output) IN
  IF r.err THEN [stat |-> NoStat, text |-> ""]
  ELSE IF statLine = <<>> THEN [stat |-> NoStat, text |-> ""]
  ELSE formatStat(parseShortStat(statLine))

(***************************************************************************)
(* getGitStatus.                                                           *)
(***************************************************************************)
\* a piece of a rendered string: its text, and the segment it belongs to
Piece(seg, str) == [seg |-> seg, s |-> str]

RECURSIVE Text(_)
\* the string that the pieces make
Text(pieces) ==
  IF pieces = <<>> THEN "" ELSE Head(pieces).s \o Text(Tail(pieces))

\* the text of a summary: the counts that are not zero, then the statistics
summary(added, modified, deleted, cAdd, cMod, cDel, stats) ==
  StrJoin((IF added > 0
             THEN <<Esc(cAdd) \o "+" \o Sprintd(added) \o Reset>> ELSE <<>>)
          \o (IF modified > 0
                THEN <<Esc(cMod) \o "~" \o Sprintd(modified) \o Reset>>
                ELSE <<>>)
          \o (IF deleted > 0
                THEN <<Esc(cDel) \o "-" \o Sprintd(deleted) \o Reset>>
                ELSE <<>>), "")
    \o stats

\* getGitStatus on what git gave (g.err, g.output: git status; g.staged,
\* g.unstaged: git diff --cached --shortstat and git diff --shortstat): the
\* pieces of the string returned, the lines of the loop, the counters after
\* each line, and the number of calls of getGitDiffStat
getGitStatus(g) ==
  LET lines == StrSplit(StrTrimSpace(g.output), <<"\n">>)
      trace == classifyLoop(lines, NoCounters)
      c == trace[Len(trace)]
      stagedStats == getGitDiffStat(g.staged).text
      unstagedStats == getGitDiffStat(g.unstaged).text
      statusParts ==
        (IF c.stagedAdded > 0 \/ c.stagedModified > 0 \/ c.stagedDeleted > 0
           THEN <<Piece("staged",
                        summary(c.stagedAdded, c.stagedModified,
                                c.stagedDeleted, "32", "33", "31",
                                stagedStats))>>
           ELSE <<>>)
        \o (IF c.unstagedAdded > 0 \/ c.unstagedModified > 0
                 \/ c.unstagedDeleted > 0
              THEN <<Piece("unstaged",
                           summary(c.unstagedAdded, c.unstagedModified,
                                   c.unstagedDeleted, "92", "93", "91",
                                   unstagedStats))>>
              ELSE <<>>)
      none == [pieces |-> <<>>, lines |-> <<>>, trace |-> <<>>,
               counters |-> NoCounters, stats |-> 0]
  IN IF g.err THEN none
     ELSE IF Len(lines) = 1 /\ lines[1] = <<>> THEN [none EXCEPT !.lines = lines]
     ELSE [pieces |-> IF Len(statusParts) = 2
                        THEN <<Piece("sep", " "), statusParts[1],
                               Piece("sep", " "), statusParts[2]>>
                      ELSE IF Len(statusParts) = 1
                        THEN <<Piece("sep", " "), statusParts[1]>>
                      ELSE <<>>,
           lines |-> lines, trace |-> trace, counters |-> c, stats |-> 2]

(***************************************************************************)
(* What git prints.                                                        *)
(***************************************************************************)
RECURSIVE SprintdChars(_)
\* the decimal digits of n >= 0
SprintdChars(n) ==
  IF n < 10 THEN <<Digits[n + 1]>>
  ELSE SprintdChars(n \div 10) \o <<Digits[(n % 10) + 1]>>

RECURSIVE StrJoinChars(_, _)
StrJoinChars(parts, sep) ==
  IF parts = <<>> THEN <<>>
  ELSE IF Len(parts) = 1 THEN parts[1]
  ELSE parts[1] \o sep \o StrJoinChars(Tail(parts), sep)

\* a clause that the line of git diff --shortstat does not have
Absent == 0 - 1

Plural(n) == IF n = 1 THEN <<>> ELSE <<"s">>

\* the line of git diff --shortstat for f files changed, i insertions and d
\* deletions, each of which may be absent:
\* " 2 files changed, 150 insertions(+), 50 deletions(-)\n"
ShortStat(f, i, d) ==
  LET clauses ==
        (IF f # Absent
           THEN <<SprintdChars(f) \o <<" ">> \o FileWord \o Plural(f)
                    \o <<" ", "c", "h", "a", "n", "g", "e", "d">>>>
           ELSE <<>>)
        \o (IF i # Absent
              THEN <<SprintdChars(i) \o <<" ">> \o InsertionWord \o Plural(i)
                       \o <<"(", "+", ")">>>>
              ELSE <<>>)
        \o (IF d # Absent
              THEN <<SprintdChars(d) \o <<" ">> \o DeletionWord \o Plural(d)
                       \o <<"(", "-", ")">>>>
              ELSE <<>>)
  IN IF clauses = <<>> THEN <<>>
     ELSE <<" ">> \o StrJoinChars(clauses, CommaSpace) \o <<"\n">>

\* a line of git status --porcelain=v1: the stage column, the worktree
\* column, a blank and the path
StatusLine(x, y) == <<x, y, " ", "f">>

\* the line of an untracked file whose name is the one character U+00A0,
\* which git prints as it is under core.quotePath=false
UntrackedWide == <<"?", "?", " ", "\\u00a0">>

RECURSIVE Unlines(_)
\* the output of git status: each line with its newline
Unlines(listing) ==
  IF listing = <<>> THEN <<>>
  ELSE Head(listing) \o <<"\n">> \o Unlines(Tail(listing))

(***************************************************************************)
(* The classifier on the listings git may print: a specification that      *)
(* draws the outputs of git and applies getGitStatus to them.              *)
(***************************************************************************)
\* the largest number of lines of a listing
MaxStatusLines == 3

\* the lines of the listings: changes of the index and of the work tree, an
\* untracked file, a conflict, a line of one character, and an untracked
\* file whose name is a space character of Unicode, which TrimSpace cuts
\* off the end of the output
StatusPool ==
  { StatusLine(" ", "M"), StatusLine("M", " "), StatusLine("A", " "),
    StatusLine(" ", "D"), StatusLine("D", " "), StatusLine("R", " "),
    StatusLine("C", " "), StatusLine("?", "?"), StatusLine("M", "D"),
    StatusLine("U", "U"), StatusLine("A", "M"), <<"M">>, UntrackedWide }

RECURSIVE Listings(_)
\* the listings of at most n lines
Listings(n) ==
  IF n = 0 THEN {<<>>}
  ELSE LET l == Listings(n - 1) IN
       l \cup { Append(f, line) : f \in l, line \in StatusPool }

\* what git diff --shortstat may give to getGitStatus
DiffPool ==
  { [err |-> TRUE, output |-> <<>>],
    [err |-> FALSE, output |-> ShortStat(1, 3, Absent)] }

InitGit ==
  /\ exists = FALSE /\ data = <<>> /\ now = 1
  /\ last = NoCall
  /\ hist = [k \in Keys |-> NoHist]
  /\ \E listing \in Listings(MaxStatusLines),
        staged \in DiffPool, unstaged \in DiffPool :
       \E err \in (IF listing = <<>> THEN BOOLEAN ELSE {FALSE}) :
         world = [op |-> "status", listing |-> listing, err |-> err,
                  output |-> Unlines(listing),
                  staged |-> staged, unstaged |-> unstaged]
  /\ out = NoOut
  /\ calls = NoCalls

\* a call gitStatus = getGitStatus(dir)
DoStatus ==
  /\ world.op = "status" /\ out = NoOut
  /\ out' = [op |-> "status", r |-> getGitStatus(world)]
  /\ UNCHANGED <<exists, data, now, last, hist, world, calls>>

NextGit == DoStatus

SpecGit == InitGit /\ [][NextGit]_vars

\* the classification of a line by its two columns
ByColumns(line) ==
  IF Len(line) < 2 THEN NoCounters
  ELSE [stagedAdded |-> IF line[1] = "A" THEN 1 ELSE 0,
        stagedDeleted |-> IF line[1] = "D" THEN 1 ELSE 0,
        stagedModified |-> IF line[1] \in {"M", "R", "C"} THEN 1 ELSE 0,
        unstagedModified |-> IF line[2] = "M" THEN 1 ELSE 0,
        unstagedDeleted |-> IF line[2] = "D" THEN 1 ELSE 0,
        unstagedAdded |-> IF line[1] = "?" /\ line[2] = "?" THEN 1 ELSE 0]

Plus(a, b) == [f \in DOMAIN a |-> a[f] + b[f]]

\* the counters of the call before its i-th line
Before(i) == IF i = 1 THEN NoCounters ELSE out.r.trace[i - 1]

\* the call has classified the listing
Classified == out.op = "status" /\ ~world.err

\* C14: for every listing and every line of it, first, middle or last, the
\* line adds to the six counters what its two status columns say; a line
\* of fewer than two characters adds nothing.
C14_ByColumns ==
  Classified =>
    /\ Len(out.r.trace) = Len(world.listing)
    /\ \A i \in 1..Len(world.listing) :
         out.r.trace[i] = Plus(Before(i), ByColumns(world.listing[i]))

IsUntracked(line) == Len(line) >= 2 /\ line[1] = "?" /\ line[2] = "?"

\* C15: an untracked line adds one to unstagedAdded and nothing to any
\* other counter, and unstagedAdded is the number of untracked lines.
C15_Untracked ==
  Classified =>
    /\ out.r.counters.unstagedAdded =
         Cardinality({ i \in 1..Len(world.listing) :
                         IsUntracked(world.listing[i]) })
    /\ \A i \in 1..Len(world.listing) :
         IsUntracked(world.listing[i]) =>
           out.r.trace[i] = [Before(i) EXCEPT !.unstagedAdded = @ + 1]

\* a listing with untracked lines at its start and at its end, and a staged
\* change between them, has been classified; the last line is the one of
\* the file named U+00A0, of which the trim of the output leaves "??"
C15_Witness ==
  /\ Classified
  /\ Len(world.listing) = 3
  /\ world.listing[1] = StatusLine("?", "?")
  /\ world.listing[2] = StatusLine("A", " ")
  /\ world.listing[3] = UntrackedWide
  /\ out.r.lines[3] = <<"?", "?">>
  /\ out.r.counters = [NoCounters EXCEPT !.unstagedAdded = 2,
                                         !.stagedAdded = 1]

(***************************************************************************)
(* The parse of the diff statistics: a specification that draws the line   *)
(* of git diff --shortstat and applies getGitDiffStat to it.               *)
(***************************************************************************)
\* the largest number of a clause of the line
MaxStat == 12

\* a clause is absent, or has a number
StatValues == {Absent} \cup 0..MaxStat

InitStat ==
  /\ exists = FALSE /\ data = <<>> /\ now = 1
  /\ last = NoCall
  /\ hist = [k \in Keys |-> NoHist]
  /\ \E f \in StatValues, i \in StatValues, d \in StatValues :
       \E err \in (IF {f, i, d} = {Absent} THEN BOOLEAN ELSE {FALSE}) :
         world = [op |-> "stat", err |-> err, output |-> ShortStat(f, i, d),
                  f |-> f, i |-> i, d |-> d]
  /\ out = NoOut
  /\ calls = NoCalls

\* a call getGitDiffStat(dir, staged)
DoDiffStat ==
  /\ world.op = "stat" /\ out = NoOut
  /\ out' = [op |-> "stat", r |-> getGitDiffStat(world)]
  /\ UNCHANGED <<exists, data, now, last, hist, world, calls>>

NextStat == DoDiffStat

SpecStat == InitStat /\ [][NextStat]_vars

\* the number of a clause, 0 when the clause is absent
Given(n) == IF n = Absent THEN 0 ELSE n

\* C16: for a line "N file(s) changed, M insertion(s)(+), L deletion(s)(-)"
\* with any of its three clauses absent, the parse gives filesChanged = N,
\* insertions = M and deletions = L for the clauses of the line and 0 for
\* the others.
C16_DiffStatParse ==
  (out.op = "stat" /\ ~world.err) =>
    out.r.stat = [filesChanged |-> Given(world.f),
                  insertions |-> Given(world.i),
                  deletions |-> Given(world.d)]

\* the line " 1 file changed, 3 deletions(-)" has been parsed as (1, 0, 3),
\* and rendered
C16_Witness ==
  /\ out.op = "stat"
  /\ world.f = 1 /\ world.i = Absent /\ world.d = 3
  /\ out.r.stat = [filesChanged |-> 1, insertions |-> 0, deletions |-> 3]
  /\ out.r.text = "(\\033[36m1f\\033[0m\\033[31m-3\\033[0m)"

(***************************************************************************)
(* main and what it calls besides the cache, the gateway and getGitStatus. *)
(***************************************************************************)
RECURSIVE Str(_)
\* string(chars)
Str(chars) == IF chars = <<>> THEN "" ELSE Head(chars) \o Str(Tail(chars))

\* isGitRepo: git rev-parse --is-inside-work-tree ran without an error
isGitRepo(git) == ~git.revparse

\* a slip: the commit identifier is asked for first
getGitBranch_HeadFirst(git) ==
  IF ~git.head.err
    THEN [branch |-> Str(StrTrimSpace(git.head.output)),
          ops |-> <<"git rev-parse --short">>]
  ELSE IF ~git.symbolic.err
    THEN [branch |-> Str(StrTrimSpace(git.symbolic.output)),
          ops |-> <<"git rev-parse --short", "git symbolic-ref">>]
  ELSE [branch |-> "", ops |-> <<"git rev-parse --short", "git symbolic-ref">>]

\* getGitBranch on what git symbolic-ref --short HEAD and git rev-parse
\* --short HEAD gave: the string returned and the commands run
getGitBranch(git) ==
  IF ~git.symbolic.err
    THEN [branch |-> Str(StrTrimSpace(git.symbolic.output)),
          ops |-> <<"git symbolic-ref">>]
  ELSE IF ~git.head.err
    THEN [branch |-> Str(StrTrimSpace(git.head.output)),
          ops |-> <<"git symbolic-ref", "git rev-parse --short">>]
  ELSE [branch |-> "", ops |-> <<"git symbolic-ref", "git rev-parse --short">>]

\* strings.TrimPrefix
StrTrimPrefix(s, prefix) ==
  IF StrHasPrefix(s, prefix) THEN SubSeq(s, Len(prefix) + 1, Len(s)) ELSE s

\* the project directory that stands for none
NullDir == <<"n", "u", "l", "l">>

\* shortenPath with the home rule of the program's first version:
\* strings.HasPrefix(currentDir, homeDir) and strings.Replace(.., "~", 1)
shortenPath_ReplaceHome(currentDir, homeDir, projectDir) ==
  LET pwdShort ==
        IF currentDir # homeDir /\ StrHasPrefix(currentDir, homeDir)
          THEN <<"~">> \o StrTrimPrefix(currentDir, homeDir)
          ELSE currentDir
  IN IF /\ currentDir # projectDir /\ projectDir # NullDir /\ projectDir # <<>>
        /\ StrHasPrefix(currentDir, projectDir \o <<"/">>)
       THEN StrTrimPrefix(currentDir, projectDir \o <<"/">>)
       ELSE pwdShort

\* shortenPath leaving the home rule out once a project directory is set
shortenPath_ProjectOnly(currentDir, homeDir, projectDir) ==
  IF projectDir # NullDir /\ projectDir # <<>>
    THEN IF /\ currentDir # projectDir
            /\ StrHasPrefix(currentDir, projectDir \o <<"/">>)
           THEN StrTrimPrefix(currentDir, projectDir \o <<"/">>)
           ELSE currentDir
  ELSE IF currentDir # homeDir /\ StrHasPrefix(currentDir, homeDir \o <<"/">>)
    THEN <<"~">> \o StrTrimPrefix(currentDir, homeDir)
  ELSE currentDir

\* shortenPath
shortenPath(currentDir, homeDir, projectDir) ==
  LET pwdShort ==
        IF currentDir # homeDir /\ StrHasPrefix(currentDir, homeDir \o <<"/">>)
          THEN <<"~">> \o StrTrimPrefix(currentDir, homeDir)
          ELSE currentDir
  IN IF /\ currentDir # projectDir /\ projectDir # NullDir /\ projectDir # <<>>
        /\ StrHasPrefix(currentDir, projectDir \o <<"/">>)
       THEN StrTrimPrefix(currentDir, projectDir \o <<"/">>)
       ELSE pwdShort

\* the keys of ~/.claude/.env that the program reads
ShowKey == "SHOW_GITHUB_NOTIFICATIONS"
TokenKey == "GITHUB_TOKEN"
EnvKeys == {ShowKey, TokenKey}

\* envVars without a key: a Go map gives "" for a key it does not have
NoEnv == [k \in EnvKeys |-> ""]

\* the lines of the file: KEY=value, a comment, a blank line, a line without
\* '=', and a line of MaxScanTokenSize bytes or more
KV(k, v) == [t |-> "kv", k |-> k, v |-> v]
Comment == [t |-> "comment", k |-> "", v |-> ""]
Blank == [t |-> "blank", k |-> "", v |-> ""]
NoEq == [t |-> "noeq", k |-> "", v |-> ""]
Long == [t |-> "long", k |-> "", v |-> ""]

RECURSIVE envLoop(_, _)
\* the loop over the lines: a later line of a key replaces an earlier one,
\* and the scanner stops at a line that is too long for it
envLoop(lines, envVars) ==
  IF lines = <<>> THEN envVars
  ELSE IF Head(lines).t = "long" THEN envVars
  ELSE envLoop(Tail(lines),
               IF Head(lines).t = "kv"
                 THEN [envVars EXCEPT ![Head(lines).k] = Head(lines).v]
                 ELSE envVars)

\* loadEnv: homeOk says whether os.UserHomeDir succeeded, file.opened whether
\* os.Open of the file did
loadEnv(homeOk, file) ==
  IF ~homeOk THEN NoEnv
  ELSE IF ~file.opened THEN NoEnv
  ELSE envLoop(file.lines, NoEnv)

\* the bell of the badge
Bell == "\\U0001F514"

\* a slip: the empty text is taken for an empty object
Unmarshal_AcceptingEmpty(stdin) ==
  CASE stdin.kind \in {"garbage", "array"} ->
         [err |-> TRUE, CurrentDir |-> <<>>, ProjectDir |-> <<>>]
    [] stdin.kind \in {"null", "empty"} ->
         [err |-> FALSE, CurrentDir |-> <<>>, ProjectDir |-> <<>>]
    [] stdin.kind = "object" ->
         [err |-> FALSE, CurrentDir |-> stdin.current_dir,
          ProjectDir |-> stdin.project_dir]

\* json.Unmarshal(input, &data) on the text of standard input: the empty
\* text, a text that is not JSON and a JSON value that is not an object
\* give an error; null leaves data as it is, with empty directories
Unmarshal(stdin) ==
  CASE stdin.kind \in {"empty", "garbage", "array"} ->
         [err |-> TRUE, CurrentDir |-> <<>>, ProjectDir |-> <<>>]
    [] stdin.kind = "null" ->
         [err |-> FALSE, CurrentDir |-> <<>>, ProjectDir |-> <<>>]
    [] stdin.kind = "object" ->
         [err |-> FALSE, CurrentDir |-> stdin.current_dir,
          ProjectDir |-> stdin.project_dir]

\* handleNotiCommand up to the request: the header is printed, and without
\* a token the hint, after which the command returns; with a token it calls
\* fetchGitHubNotifications and waits. The lines printed, by their kind, and
\* the operations
notiBegin(w) ==
  LET token == loadEnv(w.homeOk, w.envFile)[TokenKey]
      header == Piece("noti", "header")
  IN IF token = "" \/ token = "your_github_token_here"
       THEN [stdout |-> <<header, Piece("noti", "GITHUB_TOKEN not set")>>,
             ops |-> <<"loadEnv">>, waiting |-> FALSE]
       ELSE [stdout |-> <<header>>, ops |-> <<"loadEnv">>, waiting |-> TRUE]

\* the lines that handleNotiCommand prints for the notifications, one block
\* for each, numbered from 1
notiItems(n) ==
  [i \in 1..n |-> Piece("noti", Sprintd(i) \o ". notification")]

\* handleNotiCommand from the answer f on, after the lines of b
notiEnd(b, f) ==
  [stdout |-> b.stdout \o
                (IF f.err THEN <<Piece("noti", "Error fetching")>>
                 ELSE IF f.n = 0
                   THEN <<Piece("noti", "No unread notifications")>>
                 ELSE <<Piece("noti", "Found " \o Sprintd(f.n))>>
                        \o notiItems(f.n)),
   ops |-> b.ops \o <<"fetch">>,
   waiting |-> FALSE]

\* handleNotiCommand, when nothing else runs while it waits
handleNotiCommand(w) ==
  IF notiBegin(w).waiting
    THEN notiEnd(notiBegin(w),
                 fetchGitHubNotifications(
                   loadEnv(w.homeOk, w.envFile)[TokenKey], w.answer))
    ELSE notiBegin(w)

\* the operations of a call of getNotificationCount
countOps(c) ==
  (IF c.gets = 1 THEN <<"cache.Get">> ELSE <<>>)
    \o (IF c.fetches = 1 THEN <<"fetch">> ELSE <<>>)
    \o (IF c.sets = 1 THEN <<"cache.Set">> ELSE <<>>)

\* what getGitStatus returns when it is not called, or when git status fails
NoStatus ==
  [pieces |-> <<>>, lines |-> <<>>, trace |-> <<>>, counters |-> NoCounters,
   stats |-> 0]

\* the values that main gets from git: repo, the result of isGitRepo; b and
\* st, those of getGitBranch and getGitStatus
gitPart(repo, b, st) ==
  [repo |-> repo, gitBranch |-> b.branch, status |-> st,
   ops |-> <<"git rev-parse">>
             \o b.ops
             \o (IF repo THEN <<"git status">> ELSE <<>>)
             \o (IF st.stats = 2
                   THEN <<"git diff --cached", "git diff">> ELSE <<>>)]

\* main, from var gitBranch to the call of getGitStatus
gitOf(git) ==
  IF isGitRepo(git)
    THEN gitPart(TRUE, getGitBranch(git), getGitStatus(git.status))
    ELSE gitPart(FALSE, [branch |-> "", ops |-> <<>>], NoStatus)

\* a slip: the call of getNotificationCount is made whatever the flag says
notiPart_AlwaysOn(show, c, ex, d) ==
  [show |-> TRUE,
   notiCount |-> c.count,
   notiStatus |-> IF c.count > 0
                    THEN <<Piece("badge", " " \o Esc("31") \o Bell
                                            \o Sprintd(c.count) \o Reset)>>
                    ELSE <<>>,
   ops |-> <<"loadEnv">> \o countOps(c),
   exists |-> c.exists,
   data |-> c.data]

\* a slip: the badge is written for every count that is not negative
notiPart_BadgeOnZero(show, c, ex, d) ==
  [show |-> show,
   notiCount |-> IF show THEN c.count ELSE 0,
   notiStatus |-> IF show /\ c.count >= 0
                    THEN <<Piece("badge", " " \o Esc("31") \o Bell
                                            \o Sprintd(c.count) \o Reset)>>
                    ELSE <<>>,
   ops |-> <<"loadEnv">> \o (IF show THEN countOps(c) ELSE <<>>),
   exists |-> IF show THEN c.exists ELSE ex,
   data |-> IF show THEN c.data ELSE d]

\* the badge and the cache file after the call c of getNotificationCount,
\* which is made when show holds
notiPart(show, c, ex, d) ==
  [show |-> show,
   notiCount |-> IF show THEN c.count ELSE 0,
   notiStatus |-> IF show /\ c.count > 0
                    THEN <<Piece("badge", " " \o Esc("31") \o Bell
                                            \o Sprintd(c.count) \o Reset)>>
                    ELSE <<>>,
   ops |-> <<"loadEnv">> \o (IF show THEN countOps(c) ELSE <<>>),
   exists |-> IF show THEN c.exists ELSE ex,
   data |-> IF show THEN c.data ELSE d]

\* main, from the call of loadEnv to the badge
notiOf(w, envVars, ex, d, t) ==
  notiPart(envVars[ShowKey] = "true",
           getNotificationCount(ex, d, t, envVars[TokenKey], w.homeOk,
                                w.opened, w.answer, w.outcome),
           ex, d)

\* the line that main prints
renderLine(gitBranch, gitStatus, notiStatus, pwdShort) ==
  IF gitBranch # ""
    THEN IF gitStatus # <<>>
           THEN <<Piece("branch", Esc("36") \o gitBranch \o Reset)>>
                  \o gitStatus \o notiStatus
                  \o <<Piece("sep", " "),
                       Piece("path", Esc("35") \o pwdShort \o Reset)>>
           ELSE <<Piece("branch", Esc("36") \o gitBranch \o Reset)>>
                  \o notiStatus
                  \o <<Piece("sep", " "),
                       Piece("path", Esc("35") \o pwdShort \o Reset)>>
    ELSE notiStatus \o <<Piece("path", Esc("35") \o pwdShort \o Reset)>>

\* main after its calls: n is the result of handleNotiCommand, input that of
\* json.Unmarshal, g what main gets from git, nt the badge, pwdShort the
\* result of shortenPath
mainOf(w, ex, d, n, input, g, nt, pwdShort) ==
  LET r0 == [exit |-> 0, stdout |-> <<>>, stderr |-> "", ops |-> <<>>,
             exists |-> ex, data |-> d, parsed |-> FALSE, repo |-> FALSE,
             gitBranch |-> "", status |-> NoStatus,
             show |-> FALSE, notiCount |-> 0, pwdShort |-> ""]
  IN IF w.args = "noti"
       THEN [r0 EXCEPT !.stdout = n.stdout, !.ops = n.ops]
     ELSE IF w.stdin.readErr
       THEN [r0 EXCEPT !.exit = 1, !.stderr = "Error reading stdin",
                       !.ops = <<"ReadAll">>]
     ELSE IF input.err
       THEN [r0 EXCEPT !.exit = 1, !.stderr = "Error parsing JSON",
                       !.ops = <<"ReadAll", "Unmarshal">>]
     ELSE IF w.user.err
       THEN [r0 EXCEPT !.exit = 1, !.stderr = "Error getting current user",
                       !.parsed = TRUE,
                       !.ops = <<"ReadAll", "Unmarshal", "user.Current">>]
     ELSE [exit |-> 0,
           stdout |-> renderLine(g.gitBranch, g.status.pieces, nt.notiStatus,
                                 pwdShort),
           stderr |-> "",
           ops |-> <<"ReadAll", "Unmarshal", "user.Current">> \o g.ops
                     \o nt.ops,
           exists |-> nt.exists, data |-> nt.data,
           parsed |-> TRUE, repo |-> g.repo,
           gitBranch |-> g.gitBranch, status |-> g.status,
           show |-> nt.show, notiCount |-> nt.notiCount,
           pwdShort |-> pwdShort]

\* the path that main prints
pathOf(input, user) ==
  Str(shortenPath(input.CurrentDir, user.HomeDir, input.ProjectDir))

\* main, run on w with the cache file (ex, d) at time t, when nothing
\* happens to the file or the clock while it runs: the exit status,
\* the pieces written to standard output, the diagnostic written to standard
\* error, the operations performed in their order, the cache file after the
\* run, and the values of the locals gitBranch, gitStatus (with the lines
\* and counters of getGitStatus), notiCount and pwdShort
main(w, ex, d, t) ==
  mainOf(w, ex, d, handleNotiCommand(w), Unmarshal(w.stdin), gitOf(w.git),
         notiOf(w, loadEnv(w.homeOk, w.envFile), ex, d, t),
         pathOf(Unmarshal(w.stdin), w.user))

\* main reaches its call of getNotificationCount: it renders, and the flag
\* of the configuration is set
asksCount(w) ==
  /\ w.args # "noti"
  /\ ~w.stdin.readErr
  /\ ~Unmarshal(w.stdin).err
  /\ ~w.user.err
  /\ loadEnv(w.homeOk, w.envFile)[ShowKey] = "true"

\* main up to the return or the request of its call of
\* getNotificationCount, when it makes one
mainBegin(w, ex, d, t) ==
  countBegin(ex, d, t, loadEnv(w.homeOk, w.envFile)[TokenKey], w.homeOk,
             w.opened)

\* main, run on w, whose call of getNotificationCount, when it makes one, is
\* c; (ex, d) is the cache file when the call returns
mainWith(w, ex, d, c) ==
  mainOf(w, ex, d, handleNotiCommand(w), Unmarshal(w.stdin), gitOf(w.git),
         notiPart(loadEnv(w.homeOk, w.envFile)[ShowKey] = "true", c, ex, d),
         pathOf(Unmarshal(w.stdin), w.user))

\* main, run on w with the argument noti, whose call of handleNotiCommand
\* has printed n so far
mainNoti(w, ex, d, n) ==
  mainOf(w, ex, d, n, Unmarshal(w.stdin), gitOf(w.git),
         notiPart(FALSE, noCount(ex, d), ex, d),
         pathOf(Unmarshal(w.stdin), w.user))

(***************************************************************************)
(* The process: a specification that draws what the user, git and the      *)
(* notification service give, and runs main on it again and again, on one  *)
(* cache file, while the clock advances. Each run is a process of its own: *)
(* a run that sends a request waits for the answer, and other runs begin   *)
(* and end in between.                                                     *)
(***************************************************************************)
HomeDir == <<"/", "h">>

\* the texts of standard input
BadStdin ==
  { [readErr |-> TRUE, kind |-> "empty", current_dir |-> <<>>,
     project_dir |-> <<>>] }
  \cup { [readErr |-> FALSE, kind |-> k, current_dir |-> <<>>,
          project_dir |-> <<>>] : k \in {"empty", "garbage", "array"} }

GoodStdin ==
  { [readErr |-> FALSE, kind |-> "null", current_dir |-> <<>>,
     project_dir |-> <<>>],
    [readErr |-> FALSE, kind |-> "object",
     current_dir |-> HomeDir \o <<"/", "p", "/", "s">>,
     project_dir |-> HomeDir \o <<"/", "p">>],
    [readErr |-> FALSE, kind |-> "object",
     current_dir |-> <<"/", "o">>, project_dir |-> NullDir] }

\* what user.Current gives
UserOk == [err |-> FALSE, HomeDir |-> HomeDir]
UserErr == [err |-> TRUE, HomeDir |-> <<>>]

\* what a git command gives
Failed == [err |-> TRUE, output |-> <<>>]
Printed(chars) == [err |-> FALSE, output |-> chars]

\* what git status and the two git diff give to getGitStatus
StatusOf(listing, staged, unstaged) ==
  [err |-> FALSE, listing |-> listing, output |-> Unlines(listing),
   staged |-> Printed(staged), unstaged |-> Printed(unstaged)]

StatusErr ==
  [err |-> TRUE, listing |-> <<>>, output |-> <<>>,
   staged |-> Failed, unstaged |-> Failed]

\* the states of the work tree: git status fails, nothing has changed, a
\* file is modified in the work tree only, a file is staged and another one
\* is untracked, a file is staged and another one modified
MainStatus ==
  { StatusErr,
    StatusOf(<<>>, <<>>, <<>>),
    StatusOf(<<StatusLine(" ", "M")>>, <<>>, ShortStat(1, 3, Absent)),
    StatusOf(<<StatusLine("A", " "), StatusLine("?", "?")>>,
             ShortStat(1, 3, Absent), <<>>),
    StatusOf(<<StatusLine("M", " "), StatusLine(" ", "M")>>,
             ShortStat(1, 3, Absent), ShortStat(1, Absent, 2)) }

\* HEAD: on a branch (with the second query failing, and answering),
\* detached, or not resolved by either command
MainHead ==
  { [symbolic |-> Printed(<<"m", "a", "i", "n", "\n">>), head |-> Failed],
    [symbolic |-> Printed(<<"m", "a", "i", "n", "\n">>),
     head |-> Printed(<<"a", "b", "c", "\n">>)],
    [symbolic |-> Failed, head |-> Printed(<<"a", "b", "c", "\n">>)],
    [symbolic |-> Failed, head |-> Failed] }

\* no repository, or git cannot be run
NoRepo ==
  [revparse |-> TRUE, symbolic |-> Failed, head |-> Failed,
   status |-> StatusErr]

\* a repository whose HEAD is on a branch named by the one character U+00A0
\* (a name that git check-ref-format accepts), with a file staged and
\* another one modified
WideBranch ==
  [revparse |-> FALSE,
   symbolic |-> Printed(<<"\\u00a0", "\n">>),
   head |-> Printed(<<"a", "b", "c", "\n">>),
   status |-> StatusOf(<<StatusLine("M", " "), StatusLine(" ", "M")>>,
                       ShortStat(1, 3, Absent), ShortStat(1, Absent, 2))]

MainGit ==
  {NoRepo, WideBranch}
  \cup { [revparse |-> FALSE, symbolic |-> h.symbolic, head |-> h.head,
          status |-> st] : h \in MainHead, st \in MainStatus }

\* ~/.claude/.env
NoEnvFile == [opened |-> FALSE, lines |-> <<>>]
ShowWithToken ==
  [opened |-> TRUE, lines |-> <<KV(ShowKey, "true"), KV(TokenKey, "tok")>>]
EnvFiles ==
  { NoEnvFile, ShowWithToken,
    [opened |-> TRUE, lines |-> <<Comment, KV(ShowKey, "true"), Blank>>],
    [opened |-> TRUE,
     lines |-> <<KV(TokenKey, "tok"), NoEq, KV(ShowKey, "false")>>],
    [opened |-> TRUE,
     lines |-> <<KV(ShowKey, "TRUE"), KV(TokenKey, "tok")>>] }

\* a run that reads nothing and fails nowhere
World0 ==
  [op |-> "main", args |-> "", stdin |-> CHOOSE i \in GoodStdin : i.kind = "null",
   user |-> UserOk, git |-> NoRepo, homeOk |-> TRUE, envFile |-> NoEnvFile,
   opened |-> TRUE, answer |-> FetchError, outcome |-> "ok"]

\* the runs: an input that a run does not reach has one value only
NotiWorlds ==
  { [World0 EXCEPT !.args = "noti", !.stdin = i, !.envFile = e,
                   !.answer = a] :
      i \in { j \in BadStdin \cup GoodStdin : j.kind \in {"empty", "null"} },
      e \in {NoEnvFile, ShowWithToken}, a \in Answers }

FatalWorlds ==
  { [World0 EXCEPT !.stdin = i] : i \in BadStdin }
  \cup { [World0 EXCEPT !.stdin = i, !.user = UserErr] : i \in GoodStdin }

QuietWorlds ==
  { [World0 EXCEPT !.stdin = i, !.git = g, !.homeOk = h, !.envFile = e] :
      i \in GoodStdin, g \in MainGit, h \in BOOLEAN,
      e \in EnvFiles \ {ShowWithToken} }

CountWorlds ==
  UNION { { [World0 EXCEPT !.stdin = i, !.git = g,
                           !.envFile = ShowWithToken,
                           !.opened = o, !.answer = a, !.outcome = oc] :
              i \in GoodStdin, g \in MainGit, o \in BOOLEAN,
              oc \in (IF a.err THEN {"ok"} ELSE Outcomes) } :
          a \in Answers }

Worlds == NotiWorlds \cup FatalWorlds \cup QuietWorlds \cup CountWorlds

\* the cache file when the first run starts
MainFiles == { <<>>, <<Entry(1, cacheKey, "2"), NL>> }

InitMain ==
  /\ exists \in BOOLEAN
  /\ data \in (IF exists THEN MainFiles ELSE {<<>>})
  /\ now = 1
  /\ last = NoCall
  /\ hist = [k \in Keys |-> NoHist]
  /\ world \in Worlds
  /\ out = NoOut
  /\ calls = NoCalls

\* a run of the process begins: it ends at once, or it sends its request
\* and waits, with the header on its standard output when it is run with
\* noti. What main does before the request (it reads standard input and
\* waits for git) touches neither the cache file nor the clock, and is part
\* of this step
RunBegin ==
  \E b \in {mainBegin(world, exists, data, now)} :
  /\ world.op = "main"
  /\ IF world.args = "noti" /\ notiBegin(world).waiting
       THEN /\ Busy < NumCallers
            /\ calls' = [pend |-> calls.pend (+)
                                    SetToBag({NotiWaiting(
                                      loadEnv(world.homeOk,
                                              world.envFile)[TokenKey])}),
                         overlapped |-> calls.overlapped \/ Busy > 0]
            /\ out' = [op |-> "waits",
                       r |-> mainNoti(world, exists, data, notiBegin(world))]
            /\ UNCHANGED <<exists, data>>
     ELSE IF asksCount(world) /\ b.waiting
       THEN /\ Busy < NumCallers
            /\ calls' = [pend |-> calls.pend (+)
                                    SetToBag({Waiting(
                                      loadEnv(world.homeOk,
                                              world.envFile)[TokenKey], b)}),
                         overlapped |-> calls.overlapped \/ Busy > 0]
            /\ UNCHANGED <<exists, data, out>>
       ELSE \E r \in {mainWith(world, exists, data, b)} :
            /\ out' = [op |-> "main", r |-> r]
            /\ exists' = r.exists
            /\ data' = r.data
            /\ calls' = [calls EXCEPT
                           !.overlapped = calls.overlapped \/ Busy > 0]
  /\ UNCHANGED <<now, last, hist, world>>

\* the answer of the service reaches a run that waits: a run with noti
\* prints the notifications and ends; a render writes the count, prints its
\* line and ends. A run that writes needs room for a line in the file
RunEnd ==
  \E pd \in BagToSet(calls.pend) :
  \E r \in {IF pd.noti
              THEN mainNoti(world, exists, data,
                            notiEnd(notiBegin(world),
                                    fetchGitHubNotifications(pd.token,
                                                             world.answer)))
              ELSE mainWith(world, exists, data,
                            countEnd(Resumed(pd, exists, data), exists, data,
                                     now, pd.token, world.answer,
                                     world.outcome))} :
  /\ r.data # data => Len(data) + 2 <= MaxData
  /\ out' = [op |-> "main", r |-> r]
  /\ exists' = r.exists
  /\ data' = r.data
  /\ calls' = [calls EXCEPT !.pend = @ (-) SetToBag({pd})]
  /\ UNCHANGED <<now, last, hist, world>>

NextMain == Tick \/ RunBegin \/ RunEnd

SpecMain == InitMain /\ [][NextMain]_vars

(***************************************************************************)
(* Properties of the process.                                              *)
(***************************************************************************)
\* the segments of the line written, in their order
Kinds(pieces) ==
  LET segs == SelectSeq(pieces, LAMBDA x : x.seg # "sep") IN
  [i \in 1..Len(segs) |-> segs[i].seg]

\* the run rendered a line: it reached the end of main
Rendered == out.op = "main" /\ world.args = "" /\ out.r.parsed /\ out.r.exit = 0

\* the listing of git status that the run was given, when it asked for it
Changes ==
  IF out.r.repo /\ ~world.git.status.err
    THEN world.git.status.listing ELSE <<>>

\* the data of a segment is there
HasData(seg) ==
  CASE seg = "badge" -> out.r.show /\ out.r.notiCount > 0
    [] seg = "branch" -> out.r.gitBranch # ""
    [] seg = "staged" ->
         \E i \in 1..Len(Changes) :
           Len(Changes[i]) >= 2 /\ Changes[i][1] \in {"A", "D", "M", "R", "C"}
    [] seg = "unstaged" ->
         \E i \in 1..Len(Changes) :
           /\ Len(Changes[i]) >= 2
           /\ \/ Changes[i][2] \in {"M", "D"}
              \/ IsUntracked(Changes[i])
    [] seg = "path" -> TRUE

\* C17: the line written is made of the segments that have data, in the
\* order badge, branch, staged summary, unstaged summary, path.
C17_RenderOrder ==
  Rendered =>
    Kinds(out.r.stdout) =
      SelectSeq(<<"badge", "branch", "staged", "unstaged", "path">>, HasData)

\* C18: a run whose input was parsed and whose directory is not in a
\* repository, or whose repository check fails, exits 0 with a line that has
\* the path and neither a branch nor a status segment.
C18_NoRepository ==
  (out.op = "main" /\ world.args = "" /\ out.r.parsed
     /\ ~isGitRepo(world.git)) =>
    /\ out.r.exit = 0
    /\ \E i \in 1..Len(out.r.stdout) : out.r.stdout[i].seg = "path"
    /\ \A i \in 1..Len(out.r.stdout) :
         out.r.stdout[i].seg \notin {"branch", "staged", "unstaged"}

\* the operations on git, on the cache and on the network
Outside ==
  {"git rev-parse", "git symbolic-ref", "git rev-parse --short", "git status",
   "git diff --cached", "git diff", "cache.Get", "cache.Set", "fetch"}

\* the run wrote a diagnostic and no line, exited with a status that is not
\* 0, and did nothing on git, the cache or the network
Aborted ==
  /\ out.r.exit # 0
  /\ out.r.stderr # ""
  /\ out.r.stdout = <<>>
  /\ \A i \in 1..Len(out.r.ops) : out.r.ops[i] \notin Outside

\* C19 as stated: every process whose standard input is empty or is not
\* JSON aborts.
C19_Original ==
  (out.op = "main" /\ world.stdin.kind \in {"empty", "garbage"}) => Aborted

\* C19 amended: a process started without the argument noti whose standard
\* input cannot be read, is empty, is not JSON or is JSON that is not an
\* object or null writes a diagnostic to standard error and nothing to
\* standard output, exits with status 1, and has performed no operation on
\* git, the cache or the network.
C19_FatalInput ==
  (/\ out.op = "main" /\ world.args = ""
   /\ \/ world.stdin.readErr
      \/ world.stdin.kind \in {"empty", "garbage", "array"}) =>
    /\ Aborted
    /\ out.r.exit = 1
    /\ out.r.stderr \in {"Error reading stdin", "Error parsing JSON"}

\* a run on a text that is not JSON has exited with 1 after the parse
C19_Witness ==
  /\ out.op = "main" /\ world.args = "" /\ world.stdin.kind = "garbage"
  /\ out.r.exit = 1 /\ out.r.stderr = "Error parsing JSON"
  /\ out.r.ops = <<"ReadAll", "Unmarshal">>

\* C20: a run whose standard input was read and parsed prints a line and
\* exits 0, whatever fails later.
C20_OnlyInputIsFatal ==
  (out.op = "main" /\ out.r.parsed) =>
    out.r.exit = 0 /\ out.r.stdout # <<>>

\* the flag of ~/.claude/.env, as loadEnv gives it, is not "true"
Gated == loadEnv(world.homeOk, world.envFile)[ShowKey] # "true"

\* the line has a badge
HasBadge(pieces) == \E i \in 1..Len(pieces) : pieces[i].seg = "badge"

\* C23: a render whose flag SHOW_GITHUB_NOTIFICATIONS is not "true" reads
\* no cache, fetches nothing, writes no cache, leaves the cache file as it
\* was and prints no badge.
C23_Gated ==
  [][(/\ out'.op = "main" /\ world.args = ""
      /\ out'.r.parsed /\ out'.r.exit = 0
      /\ Gated)
       => /\ exists' = exists /\ data' = data
          /\ \A i \in 1..Len(out'.r.ops) :
               out'.r.ops[i] \notin {"cache.Get", "fetch", "cache.Set"}
          /\ ~HasBadge(out'.r.stdout)]_vars

\* a render with the flag "false", a token, and a cached count 2 that is
\* still valid: no badge, and the cache was not read
C23_Witness ==
  /\ Rendered /\ Gated
  /\ loadEnv(world.homeOk, world.envFile)[TokenKey] = "tok"
  /\ loadEnv(world.homeOk, world.envFile)[ShowKey] = "false"
  /\ exists /\ data = <<Entry(1, cacheKey, "2"), NL>> /\ now = 1
  /\ out.r.ops[Len(out.r.ops)] = "loadEnv"
  /\ ~HasBadge(out.r.stdout)

\* the service answers with no notification
NoneUnread == [err |-> FALSE, n |-> 0]

\* the render of this state's run had the service failed, and had it
\* answered with no notification
RenderUnavailable ==
  main([world EXCEPT !.answer = FetchError, !.outcome = "ok"],
       exists, data, now)
RenderNoneUnread ==
  main([world EXCEPT !.answer = NoneUnread, !.outcome = "ok"],
       exists, data, now)

\* C24: a render has a badge exactly when the lookup is enabled and the
\* count is greater than 0; the render where the count is -1 and the render
\* where it is 0, all else equal, print the same line, without a badge.
C24_BadgeIffPositive ==
  /\ Rendered => (HasBadge(out.r.stdout) <=> out.r.show /\ out.r.notiCount > 0)
  /\ (/\ world.op = "main" /\ world.args = ""
      /\ RenderUnavailable.exit = 0 /\ RenderUnavailable.show
      /\ RenderUnavailable.notiCount = 0 - 1
      /\ RenderNoneUnread.notiCount = 0)
       => /\ RenderUnavailable.stdout = RenderNoneUnread.stdout
          /\ ~HasBadge(RenderNoneUnread.stdout)

\* a render whose fetch failed has no badge, and its line is the line of the
\* render whose fetch gives 0
C24_Witness ==
  /\ Rendered /\ out.r.show /\ world.answer = FetchError
  /\ out.r.notiCount = 0 - 1
  /\ out.r.gitBranch # ""
  /\ RenderNoneUnread.notiCount = 0
  /\ RenderNoneUnread.show
  /\ out.r.stdout = RenderNoneUnread.stdout
  /\ ~HasBadge(out.r.stdout)

\* the queries about HEAD that the run made, in their order
BranchOps ==
  SelectSeq(out.r.ops,
            LAMBDA o : o \in {"git symbolic-ref", "git rev-parse --short"})

\* the run called getGitBranch
AskedBranch ==
  /\ out.op = "main" /\ world.args = "" /\ out.r.parsed
  /\ ~world.user.err /\ isGitRepo(world.git)

\* the name that a query printed: its output without the newline at its end
NameOf(output) ==
  IF output # <<>> /\ output[Len(output)] = "\n"
    THEN Str(SubSeq(output, 1, Len(output) - 1))
    ELSE Str(output)

\* C25: getGitBranch asks for the symbolic name of HEAD first and returns
\* it when that query succeeds, without a second query; when it fails it
\* asks for the short commit identifier and returns that; it returns the
\* empty string exactly when both queries fail, and the run goes on.
C25_CurrentBranch ==
  AskedBranch =>
    /\ ~world.git.symbolic.err =>
         /\ out.r.gitBranch = NameOf(world.git.symbolic.output)
         /\ BranchOps = <<"git symbolic-ref">>
    /\ (world.git.symbolic.err /\ ~world.git.head.err) =>
         /\ out.r.gitBranch = NameOf(world.git.head.output)
         /\ BranchOps = <<"git symbolic-ref", "git rev-parse --short">>
    /\ (out.r.gitBranch = "")
         <=> (world.git.symbolic.err /\ world.git.head.err)
    /\ out.r.exit = 0 /\ out.r.stderr = ""

\* what the code does: the order of the queries is the claimed one, the
\* run goes on, and the value is the output of the query that succeeded
\* with the space characters of Unicode cut off both ends, which is the
\* name unless the name begins or ends with such a character
BranchTrimmed ==
  AskedBranch =>
    /\ ~world.git.symbolic.err =>
         /\ out.r.gitBranch = Str(StrTrimSpace(world.git.symbolic.output))
         /\ BranchOps = <<"git symbolic-ref">>
    /\ (world.git.symbolic.err /\ ~world.git.head.err) =>
         /\ out.r.gitBranch = Str(StrTrimSpace(world.git.head.output))
         /\ BranchOps = <<"git symbolic-ref", "git rev-parse --short">>
    /\ (world.git.symbolic.err /\ world.git.head.err) =>
         out.r.gitBranch = ""
    /\ out.r.exit = 0 /\ out.r.stderr = ""

\* on the branch whose name is U+00A0 the first query succeeds, no second
\* query is made, and the run has no branch
BranchLost ==
  /\ AskedBranch
  /\ ~world.git.symbolic.err
  /\ NameOf(world.git.symbolic.output) = "\\u00a0"
  /\ BranchOps = <<"git symbolic-ref">>
  /\ out.r.gitBranch = ""

\* C26: a Get(k) decides on the last line of the file whose key is k
\* alone: when that line is older than the TTL the result is not-found,
\* though an earlier line for k may still be within the TTL; when it is
\* within the TTL its content is returned, though an earlier line for k may
\* carry a later timestamp.
C26_PositionalLatest ==
  \A k \in Keys :
    LET es == EntriesFor(data, k) IN
    (GotKey(k) /\ es # <<>>) =>
      IF now - es[Len(es)].ts > TTL
        THEN ~last.found /\ last.val = ""
        ELSE last.found /\ last.val = es[Len(es)].content

\* C28: a Get leaves the cache file as it was, in existence and in
\* content, whether it hits, misses, meets an expired entry or lines that do
\* not parse, or finds no file.
C28_GetReadOnly ==
  [][last'.op = "Get" => (exists' = exists /\ data' = data)]_vars

\* a Get has met an entry of its key that is older than the TTL, returned
\* not-found, and the entry is still in the file
C28_Witness ==
  /\ last.op = "Get" /\ last.opened /\ ~last.found
  /\ exists
  /\ \E i \in 1..Len(data) :
       /\ data[i].t = "json" /\ data[i].key = last.key
       /\ now - data[i].ts > TTL

(***************************************************************************)
(* shortenPath as a function of its three strings.                         *)
(***************************************************************************)
\* the longest directory string
MaxPath == 4

\* the characters of a directory string
PathChars == {"/", "p"}

RECURSIVE StringsOf(_)
\* the strings of at most n characters
StringsOf(n) ==
  IF n = 0 THEN {<<>>}
  ELSE LET shorter == StringsOf(n - 1)
       IN shorter \cup { Append(s, c) : s \in shorter, c \in PathChars }

\* the directories of a call: project_dir may also be the string "null"
Dirs == StringsOf(MaxPath)
ProjectDirs == Dirs \cup {NullDir}

InitPath ==
  /\ exists = FALSE /\ data = <<>> /\ now = 1
  /\ last = NoCall
  /\ hist = [k \in Keys |-> NoHist]
  /\ \E currentDir \in Dirs, homeDir \in Dirs, projectDir \in ProjectDirs :
       world = [op |-> "path", currentDir |-> currentDir,
                homeDir |-> homeDir, projectDir |-> projectDir]
  /\ out = NoOut
  /\ calls = NoCalls

\* a call pwdShort := shortenPath(currentDir, homeDir, projectDir)
DoShorten ==
  /\ world.op = "path" /\ out = NoOut
  /\ out' = [op |-> "path",
             r |-> shortenPath(world.currentDir, world.homeDir,
                               world.projectDir)]
  /\ UNCHANGED <<exists, data, now, last, hist, world, calls>>

NextPath == DoShorten

SpecPath == InitPath /\ [][NextPath]_vars

\* dir is strictly below base: it starts with base followed by "/"
Under(dir, base) ==
  /\ Len(dir) > Len(base)
  /\ SubSeq(dir, 1, Len(base)) = base
  /\ dir[Len(base) + 1] = "/"

\* dir past its first n characters
Past(dir, n) == SubSeq(dir, n + 1, Len(dir))

\* the path has been shortened
Shortened == out.op = "path"

\* C21 as stated: with currentDir equal to projectDir the result is
\* currentDir itself, whatever homeDir is.
C21_Original ==
  (Shortened /\ world.currentDir = world.projectDir)
    => out.r = world.currentDir

\* C21: with currentDir equal to projectDir the project rule is not applied
\* and the home rule still is: the result is "~" followed by what comes
\* after homeDir when currentDir starts with homeDir + "/", and currentDir
\* itself otherwise.
C21_AtProjectRoot ==
  (Shortened /\ world.currentDir = world.projectDir)
    => out.r = IF Under(world.currentDir, world.homeDir)
                 THEN <<"~">> \o Past(world.currentDir, Len(world.homeDir))
                 ELSE world.currentDir

\* at the root /p/p of a project below the home directory /p, shown as ~/p
C21_Witness ==
  /\ Shortened
  /\ world.currentDir = <<"/", "p", "/", "p">>
  /\ world.projectDir = world.currentDir
  /\ world.homeDir = <<"/", "p">>
  /\ out.r = <<"~", "/", "p">>

\* projectDir is set: neither empty nor the string "null"
ProjectSet == world.projectDir # <<>> /\ world.projectDir # NullDir

\* C22: below a set projectDir that differs from currentDir the result is
\* currentDir relative to projectDir, whatever homeDir is; otherwise, below
\* a homeDir that differs from currentDir it is "~" followed by what comes
\* after homeDir; otherwise it is currentDir unchanged.
C22_Precedence ==
  Shortened =>
    out.r =
      IF /\ ProjectSet /\ world.projectDir # world.currentDir
         /\ Under(world.currentDir, world.projectDir)
        THEN Past(world.currentDir, Len(world.projectDir) + 1)
      ELSE IF /\ world.currentDir # world.homeDir
              /\ Under(world.currentDir, world.homeDir)
        THEN <<"~">> \o Past(world.currentDir, Len(world.homeDir))
      ELSE world.currentDir

\* /p/p below both the project directory /p and the home directory /p is
\* shown relative to the project
C22_Witness ==
  /\ Shortened
  /\ world.currentDir = <<"/", "p", "/", "p">>
  /\ world.projectDir = <<"/", "p">>
  /\ world.homeDir = <<"/", "p">>
  /\ out.r = <<"p">>

(***************************************************************************)
(* Writers in processes of their own: each calls Set once on the one cache *)
(* file, and the steps of the calls interleave. The file is opened with    *)
(* O_APPEND, so each write lands at the end that the file has at that      *)
(* moment, in one piece. A reader calls Get once every writer is done.     *)
(***************************************************************************)
\* the number of writers
NumWriters == 2

Writers == 1..NumWriters

\* the file before the writers start: missing, empty, an entry on a line,
\* or a fragment without a newline
RaceFiles ==
  { <<>>, <<Entry(0, cacheKey, "2"), NL>>, <<Junk(FragLen)>> }

\* what a writer writes: a count of its own, or a long text
RaceContent(p, big) == IF big THEN BigStr ELSE Sprintd(p)

\* a writer before its call Set(key, content)
Writer(key, content) ==
  [pc |-> "set", key |-> key, content |-> content, ts |-> 0, err |-> FALSE]

InitRace ==
  /\ exists \in BOOLEAN
  /\ data \in (IF exists THEN RaceFiles ELSE {<<>>})
  /\ now = 1
  /\ last = NoCall
  /\ hist = [k \in Keys |-> NoHist]
  /\ \E key \in [Writers -> Keys], big \in [Writers -> BOOLEAN] :
       world = [op |-> "race", before |-> data,
                procs |-> [p \in Writers |->
                             Writer(key[p], RaceContent(p, big[p]))]]
  /\ out = NoOut
  /\ calls = NoCalls

\* Set and the start of appendEntry: the entry is made, stamped with
\* time.Now(), and os.OpenFile with O_CREATE|O_WRONLY|O_APPEND creates a
\* missing file, or fails
RaceOpen(p, ok) ==
  /\ world.op = "race" /\ world.procs[p].pc = "set"
  /\ IF ok
       THEN /\ exists' = TRUE
            /\ data' = data
            /\ world' = [world EXCEPT !.procs[p].pc = "write",
                                      !.procs[p].ts = now]
       ELSE /\ exists' = openFailed(exists, data).exists
            /\ data' = openFailed(exists, data).data
            /\ world' = [world EXCEPT !.procs[p].pc = "done",
                                      !.procs[p].ts = now,
                                      !.procs[p].err = TRUE]
  /\ UNCHANGED <<now, last, hist, out, calls>>

\* appendEntry: file.Write(append(data, '\n')) and the return
RaceWrite(p, outcome) ==
  LET w == appendEntry(exists, data,
                       [Timestamp |-> world.procs[p].ts,
                        Key |-> world.procs[p].key,
                        Content |-> world.procs[p].content], outcome) IN
  /\ world.op = "race" /\ world.procs[p].pc = "write"
  /\ exists' = w.exists
  /\ data' = w.data
  /\ world' = [world EXCEPT !.procs[p].pc = "done", !.procs[p].err = w.err]
  /\ UNCHANGED <<now, last, hist, out, calls>>

\* every writer has returned
AllDone == world.op = "race" /\ \A p \in Writers : world.procs[p].pc = "done"

\* the Get that follows the writers
RaceGet == AllDone /\ GetStep

OpenSteps == \E p \in Writers, ok \in BOOLEAN : RaceOpen(p, ok)
WriteSteps ==
  \E p \in Writers, outcome \in Outcomes \ {"openfail"} :
    RaceWrite(p, outcome)

NextRace == Tick \/ OpenSteps \/ WriteSteps \/ RaceGet

SpecRace == InitRace /\ [][NextRace]_vars

\* the writer's Set has returned nil
Completed(p) == world.procs[p].pc = "done" /\ ~world.procs[p].err

\* the line of the writer's entry
LineOf(p) ==
  Entry(world.procs[p].ts, world.procs[p].key, world.procs[p].content)

\* the places of the file where the line stands as a line of its own, from
\* the start of a line to its newline
OwnLines(line) ==
  { i \in 1..(Len(data) - 1) :
      /\ data[i] = line
      /\ i = 1 \/ data[i - 1].t = "nl"
      /\ data[i + 1].t = "nl" }

\* the Sets on key that have returned nil
CompletedOn(key) == { p \in Writers : Completed(p) /\ world.procs[p].key = key }

\* C27: whatever the interleaving of the writers, what the file held before
\* is still there, unchanged, at its start; the entry of each Set that has
\* returned nil is in the file as a line of its own; and a Get(k) that
\* follows, within the TTL of the Sets on k that returned nil, returns the
\* content of one of them.
C27_ConcurrentSets ==
  world.op = "race" =>
    /\ IsPrefix(world.before, data)
    /\ \A p \in Writers :
         Completed(p) =>
           Cardinality(OwnLines(LineOf(p)))
             >= Cardinality({ q \in Writers :
                                Completed(q) /\ LineOf(q) = LineOf(p) })
    /\ \A k \in Keys :
         (/\ AllDone /\ GotKey(k)
          /\ CompletedOn(k) # {}
          /\ \A p \in CompletedOn(k) : now - world.procs[p].ts <= TTL)
           => /\ last.found
              /\ \E p \in CompletedOn(k) : last.val = world.procs[p].content

(***************************************************************************)
(* Processes that call getNotificationCount again and again, with a token, *)
(* while nothing fails: the home directory is known, the cache file can be *)
(* opened, the service answers and the write succeeds. The calls of one    *)
(* process follow one another; those of several processes overlap.         *)
(***************************************************************************)
\* the longest cache file of the processes: room for the file of the start
\* and two lines written
MaxRateData == 6

\* a call getNotificationCount(envVars) in which nothing fails, up to its
\* return or its request
RateBegin == CountBegin("tok", TRUE, TRUE)

\* the service answers a call, which writes the count and returns
RateEnd ==
  \E pd \in BagToSet(calls.pend), answer \in Answers \ {FetchError} :
    CountEnd(MaxRateData, pd, answer, "ok")

NextRate == Tick \/ RateBegin \/ RateEnd

SpecRate == Init /\ [][NextRate]_vars

\* a count was written at most TTL ago
InWindow == hist[cacheKey].n >= 1 /\ now - hist[cacheKey].at <= TTL

\* C29: while the calls follow one another, once a call has fetched a count
\* and written it at time t, no call made at or before t + TTL sends a
\* request, and each returns the count of that fetch.
C29_RateLimit ==
  [][(~calls'.overlapped /\ InWindow)
       => /\ Busy' <= Busy
          /\ Returns
               => /\ last'.fetches = 0
                  /\ Itoa(last'.count) = hist[cacheKey].val]_vars

====
